---- MODULE Spec2Model ----
(***************************************************************************)
(* The tunnelling gateway (internal/protocol/protocol.go, package server)  *)
(* and the agent (internal/agent) as a state machine.                      *)
(*                                                                         *)
(* Strings are sequences of one-character strings, so that normalisation   *)
(* is computed character by character, as the Go code does.                *)
(***************************************************************************)
EXTENDS Integers, Sequences, FiniteSets, TLC

(***************************************************************************)
(* Bounds of the model.                                                    *)
(***************************************************************************)
MaxConn == 3
SpecConns == 2
SpecReqs == 1
AgentConns == 2
MaxReq == 2
MaxInbound == 1
SockBuf == 1
MaxArrivals == 4
MaxLen == 4
MaxDials == 6
\* The cap of a public request's body, in bytes: 10 << 20 in protocol.go,
\* three in the model, whose bodies have up to two bytes more.
maxBodySize == 3

Conns == 1..MaxConn
Reqs == 1..MaxReq
Ids == 1..MaxReq

NoSess == 0
NoTok == "-"
NoBinding == [Token |-> NoTok, Target |-> <<>>, by |-> NoSess]
NoEnv == [Type |-> "-"]
NoHost == <<"?">>
NoAdmin == [req |-> "-", pos |-> "idle", status |-> 0, body |-> <<>>]
NoCall == [fn |-> "-"]

(***************************************************************************)
(* Go's strings package, on sequences of characters.                       *)
(***************************************************************************)
IsSpace(c) == c \in {" ", "\t", "\n", "\r"}

LowerChar(c) ==
    CASE c = "A" -> "a" [] c = "B" -> "b" [] c = "C" -> "c" [] c = "D" -> "d"
      [] c = "X" -> "x" [] c = "Y" -> "y" [] OTHER -> c

ToLower(s) == [i \in 1..Len(s) |-> LowerChar(s[i])]

RECURSIVE TrimLeft(_)
TrimLeft(s) ==
    IF s = <<>> THEN s
    ELSE IF IsSpace(Head(s)) THEN TrimLeft(Tail(s)) ELSE s

RECURSIVE TrimRight(_)
TrimRight(s) ==
    IF s = <<>> THEN s
    ELSE IF IsSpace(s[Len(s)]) THEN TrimRight(SubSeq(s, 1, Len(s) - 1)) ELSE s

TrimSpace(s) == TrimRight(TrimLeft(s))

Positions(s, c) == {i \in 1..Len(s) : s[i] = c}

Contains(s, c) == Positions(s, c) # {}

Count(s, c) == Cardinality(Positions(s, c))

\* 1-based index of the first / last occurrence of c in s, 0 when absent.
IndexByte(s, c) ==
    IF Positions(s, c) = {} THEN 0
    ELSE CHOOSE i \in Positions(s, c) : \A j \in Positions(s, c) : i <= j

LastIndexByte(s, c) ==
    IF Positions(s, c) = {} THEN 0
    ELSE CHOOSE i \in Positions(s, c) : \A j \in Positions(s, c) : j <= i

\* net.SplitHostPort of the Go standard library: [err, host].
SplitHostPort(hostport) ==
    LET i == LastIndexByte(hostport, ":")
        end == IndexByte(hostport, "]")
        bracket == hostport # <<>> /\ hostport[1] = "["
        host == IF bracket THEN SubSeq(hostport, 2, end - 1) ELSE SubSeq(hostport, 1, i - 1)
        j == IF bracket THEN 2 ELSE 1
        k == IF bracket THEN end + 1 ELSE 1
        bad == [err |-> TRUE, host |-> <<>>]
    IN  IF i = 0 THEN bad
        ELSE IF bracket /\ (end = 0 \/ end + 1 # i) THEN bad
        ELSE IF ~bracket /\ Contains(host, ":") THEN bad
        ELSE IF Contains(SubSeq(hostport, j, Len(hostport)), "[") THEN bad
        ELSE IF Contains(SubSeq(hostport, k, Len(hostport)), "]") THEN bad
        ELSE [err |-> FALSE, host |-> host]

\* strings.Split(host, ":")[0]
BeforeColon(s) == SubSeq(s, 1, IndexByte(s, ":") - 1)

normalizeHost(raw) ==
    LET host == TrimSpace(ToLower(raw))
    IN  IF host = <<>> THEN <<>>
        ELSE IF Contains(host, ":")
        THEN LET sp == SplitHostPort(host)
             IN  IF ~sp.err THEN TrimSpace(ToLower(sp.host))
                 ELSE IF Count(host, ":") = 1
                 THEN TrimSpace(ToLower(BeforeColon(host)))
                 ELSE host
        ELSE host

(***************************************************************************)
(* agent.NormalizeHostname and agent.NormalizeTarget.                      *)
(***************************************************************************)
\* strings.TrimSuffix(s, ".")
TrimSuffixDot(s) ==
    IF s # <<>> /\ s[Len(s)] = "." THEN SubSeq(s, 1, Len(s) - 1) ELSE s

\* strings.Contains(s, sub) for a substring.
ContainsString(s, sub) ==
    \E i \in 1..(Len(s) - Len(sub) + 1) : SubSeq(s, i, i + Len(sub) - 1) = sub

NormalizeHostname(hostname) ==
    LET host == TrimSuffixDot(TrimSpace(ToLower(hostname)))
    IN  [ err  |-> \/ host = <<>>
                   \/ Contains(host, " ")
                   \/ Contains(host, ":")
                   \/ ~Contains(host, "."),
          host |-> host ]

NormalizeTarget(target) ==
    LET t == TrimSpace(target)
    IN  [ err    |-> \/ t = <<>>
                     \/ ContainsString(t, <<"h", "t", "t", "p", ":", "/", "/">>)
                     \/ ContainsString(t, <<"h", "t", "t", "p", "s", ":", "/", "/">>)
                     \/ ~Contains(t, ":"),
          target |-> t ]

(***************************************************************************)
(* The inputs the environment draws from.                                  *)
(***************************************************************************)
Tokens == {"t1"}

\* The tokens of a gateway with two tenants.
Tenants == {"t1", "t2"}

H_ab == <<"a", ".", "b">>
H_cd == <<"c", ".", "d">>
H_AbPort == <<"A", ".", "b", ":", "8">>
H_blank == <<" ">>
H_CdDot == <<"C", ".", "d", ".">>
H_CdDots == <<"C", ".", "d", ".", ".">>
H_dDots == <<"d", ".", ".">>
T_x1 == <<"x", ":", "1">>
T_y2 == <<" ", "y", ":", "2">>
T_blank == <<" ">>
T_x == <<"x">>

Route(h, t) == [Hostname |-> h, Target |-> t]

\* register_routes payloads: a well-formed one, and one with un-normalised,
\* malformed and repeated entries.
RL_plain == << Route(H_ab, T_x1), Route(H_cd, T_x1) >>
RL_odd == << Route(H_cd, T_blank), Route(H_blank, T_x1), Route(H_AbPort, T_x1),
             Route(H_ab, T_y2) >>
RouteLists == { RL_plain, RL_odd }

\* A payload that leaves a.b out.
RL_one == << Route(H_cd, T_x1) >>

\* A payload with a hostname that ends with a dot and a target without a
\* port, and one well-formed entry.
RL_malformed == << Route(H_CdDot, T_x1), Route(H_ab, T_x), Route(H_cd, T_x1) >>

\* Host headers of public requests.
RawHosts == { H_AbPort, H_cd, H_blank }

RECURSIVE SeqRange(_)
SeqRange(s) == IF s = <<>> THEN {} ELSE {Head(s)} \cup SeqRange(Tail(s))

AllRoutes == UNION { SeqRange(rl) : rl \in RouteLists }

\* The agent's config file at start, and the routes of the control endpoint.
InitFile == << Route(H_ab, T_x1) >>
CtlRoutes == << Route(H_CdDot, T_y2), Route(H_ab, T_x1) >>

RawHostStrings ==
    { r.Hostname : r \in AllRoutes \cup SeqRange(InitFile) \cup SeqRange(CtlRoutes) }
        \cup RawHosts \cup {H_dDots}
RawTargetStrings ==
    { r.Target : r \in AllRoutes \cup SeqRange(InitFile) \cup SeqRange(CtlRoutes) }
        \cup { r.Target : r \in SeqRange(RL_malformed) }

HostStrings ==
    RawHostStrings \cup { NormalizeHostname(raw).host : raw \in RawHostStrings }
TargetStrings ==
    RawTargetStrings \cup { NormalizeTarget(raw).target : raw \in RawTargetStrings }

\* normalizeHost and strings.TrimSpace on the strings above, computed once.
NormalizedHost == [raw \in HostStrings |-> normalizeHost(raw)]
TrimmedTarget == [t \in TargetStrings |-> TrimSpace(t)]

Hosts == { NormalizedHost[raw] : raw \in HostStrings } \ { <<>> }

(***************************************************************************)
(* agent.ConfigStore: a map host -> target, NoTarget for a missing key.    *)
(***************************************************************************)
NoTarget == <<>>
EmptyStore == [h \in Hosts |-> NoTarget]

\* ConfigStore.load: the routes of the file, the invalid ones skipped.
RECURSIVE load(_)
load(file) ==
    IF file = <<>> THEN EmptyStore
    ELSE LET route == file[Len(file)]
             before == load(SubSeq(file, 1, Len(file) - 1))
             h == NormalizeHostname(route.Hostname)
             t == NormalizeTarget(route.Target)
         IN  IF h.err \/ t.err THEN before
             ELSE [before EXCEPT ![h.host] = t.target]

\* ConfigStore.ReplaceAll: the map "next", or the error of the first invalid
\* route.
RECURSIVE ReplaceAllNext(_)
ReplaceAllNext(payload) ==
    IF payload = <<>> THEN [err |-> FALSE, routes |-> EmptyStore]
    ELSE LET route == payload[Len(payload)]
             before == ReplaceAllNext(SubSeq(payload, 1, Len(payload) - 1))
             h == NormalizeHostname(route.Hostname)
             t == NormalizeTarget(route.Target)
         IN  IF before.err \/ h.err \/ t.err
             THEN [err |-> TRUE, routes |-> EmptyStore]
             ELSE [err |-> FALSE,
                   routes |-> [before.routes EXCEPT ![h.host] = t.target]]

CtlNext == ReplaceAllNext(CtlRoutes)

\* The order of Go's string comparison on the characters of the model.
Alphabet ==
    << " ", ".", "/", "1", "2", "8", ":", "?", "A", "B", "C", "D", "X", "Y",
       "[", "]", "a", "b", "c", "d", "h", "p", "s", "t", "x", "y" >>

CharRank(c) == CHOOSE i \in 1..Len(Alphabet) : Alphabet[i] = c

RECURSIVE Less(_, _)
Less(a, b) ==
    IF b = <<>> THEN FALSE
    ELSE IF a = <<>> THEN TRUE
    ELSE IF Head(a) = Head(b) THEN Less(Tail(a), Tail(b))
    ELSE CharRank(Head(a)) < CharRank(Head(b))

RECURSIVE SortedRoutes(_, _)
SortedRoutes(hosts, store) ==
    IF hosts = {} THEN <<>>
    ELSE LET first == CHOOSE h \in hosts : \A g \in hosts \ {h} : Less(h, g)
         IN  <<Route(first, store[first])>> \o SortedRoutes(hosts \ {first}, store)

\* ConfigStore.List: the routes sorted by hostname.
List(store) == SortedRoutes({h \in Hosts : store[h] # NoTarget}, store)


(***************************************************************************)
(* Envelopes (protocol.Envelope) a client of the control channel can send. *)
(* Type "bad" stands for a frame ReadJSON cannot decode.                   *)
(***************************************************************************)
RegisterRoutes(rl) == [Type |-> "register_routes", Routes |-> rl]
ProxyResponse(id, st) == [Type |-> "proxy_response", RequestID |-> id, Status |-> st]
ErrorEnv == [Type |-> "error"]
BadFrame == [Type |-> "bad"]

ClientMsgs ==
    { RegisterRoutes(rl) : rl \in RouteLists } \cup
    { ProxyResponse(id, 200) : id \in 0..MaxReq } \cup
    { ErrorEnv, BadFrame }

(***************************************************************************)
(* State.                                                                  *)
(***************************************************************************)
VARIABLES
    agents,      \* TunnelServer.agents: token -> session (NoSess: no entry)
    routes,      \* TunnelServer.routes: host -> routeBinding (NoBinding: no entry)
    routesMu,    \* the session holding routesMu exclusively, NoSess when free
    requestSeq,  \* TunnelServer.requestSeq
    nextConn,    \* the next control connection to be accepted
    connTok,     \* AgentSession.Token of each session
    hc,          \* position of each HandleConnect goroutine
    prev,        \* HandleConnect's local "previous"
    env,         \* the envelope the reader holds
    pending,     \* AgentSession.pending: request id -> response channel (its handler)
    gwClosed,    \* the gateway has called Conn.Close on the session's connection
    peerClosed,  \* the peer closed the connection, or the transport failed
    inbound,     \* frames in flight, peer -> gateway
    outbound,    \* frames in flight, gateway -> peer
    applied,     \* the session's reader has applied a register_routes
    hp,          \* position of each HandlePublicHTTP goroutine
    hHost,       \* its normalised host
    hBinding,    \* its "binding"
    hSess,       \* its "session"
    hId,         \* its requestID (0: none allocated)
    hWrote,      \* its proxy_request was written
    respCh,      \* its respCh (capacity 1)
    hGot,        \* the envelope it received from respCh
    hStatus,     \* the status it answered with (0: not yet)
    storeRoutes, \* ConfigStore.routes: host -> target (NoTarget: no entry)
    fileRoutes,  \* the routes in the agent's config file
    aConn,       \* Service.conn (NoSess: nil)
    cl,          \* position of the agent's connectLoop goroutine
    cList,       \* the routes publishRoutes listed, called from connectOnce
    sl,          \* position of the agent's routeSyncLoop goroutine
    sList,       \* the routes publishRoutes listed, called from the route sync
    polled,      \* the last poll of the route sync ended without an error
    tasks,       \* request ids of the running handleProxyRequest goroutines
    admin,       \* the request the admin API handles, or has answered last
    ctxDone,     \* the ctx of Service.Run is cancelled
    loopAt,      \* position of connectLoop, with connectOnce as its callee
    backoff,     \* connectLoop's backoff, in seconds
    dials,       \* the calls of connectOnce so far
    syncAt,      \* position of routeSyncLoop
    call,        \* the call of a single function: its arguments and results
    writeMu,     \* Service.writeMu: the request id of its holder (0: unlocked)
    inWrite      \* the request ids of the goroutines inside conn.WriteJSON

gwVars == <<agents, routes, routesMu, requestSeq>>
connVars == <<nextConn, connTok, hc, prev, env, pending, gwClosed, peerClosed,
              inbound, outbound, applied>>
reqVars == <<hp, hHost, hBinding, hSess, hId, hWrote, respCh, hGot, hStatus>>
runVars == <<ctxDone, loopAt, backoff, dials, syncAt, call, writeMu, inWrite>>
agentVars == <<storeRoutes, fileRoutes, aConn, cl, cList, sl, sList, polled, tasks,
               admin, runVars>>
vars == <<gwVars, connVars, reqVars, agentVars>>

\* The gateway and the agent's sessions, store, route sync and admin API.
sysVars == <<gwVars, connVars, reqVars, storeRoutes, fileRoutes, aConn, cl, cList,
             sl, sList, polled, tasks, admin, writeMu, inWrite>>
\* The agent's loops and the context of Run.
loopVars == <<ctxDone, loopAt, backoff, dials, syncAt>>

\* New(): empty registry and routing table.
Init ==
    /\ agents = [t \in Tenants |-> NoSess]
    /\ routes = [h \in Hosts |-> NoBinding]
    /\ routesMu = NoSess
    /\ requestSeq = 0
    /\ nextConn = 1
    /\ connTok = [c \in Conns |-> NoTok]
    /\ hc = [c \in Conns |-> "none"]
    /\ prev = [c \in Conns |-> NoSess]
    /\ env = [c \in Conns |-> NoEnv]
    /\ pending = [c \in Conns |-> [i \in Ids |-> 0]]
    /\ gwClosed = [c \in Conns |-> FALSE]
    /\ peerClosed = [c \in Conns |-> FALSE]
    /\ inbound = [c \in Conns |-> <<>>]
    /\ outbound = [c \in Conns |-> <<>>]
    /\ applied = [c \in Conns |-> FALSE]
    /\ hp = [h \in Reqs |-> "idle"]
    /\ hHost = [h \in Reqs |-> NoHost]
    /\ hBinding = [h \in Reqs |-> NoBinding]
    /\ hSess = [h \in Reqs |-> NoSess]
    /\ hId = [h \in Reqs |-> 0]
    /\ hWrote = [h \in Reqs |-> FALSE]
    /\ respCh = [h \in Reqs |-> <<>>]
    /\ hGot = [h \in Reqs |-> NoEnv]
    /\ hStatus = [h \in Reqs |-> 0]
    /\ storeRoutes = load(InitFile)
    /\ fileRoutes = load(InitFile)
    /\ aConn = NoSess
    /\ cl = "dial"
    /\ cList = <<>>
    /\ sl = "idle"
    /\ sList = <<>>
    /\ polled = FALSE
    /\ tasks = {}
    /\ admin = NoAdmin
    /\ ctxDone = FALSE
    /\ loopAt = "select"
    /\ backoff = 1
    /\ dials = 0
    /\ syncAt = "sync"
    /\ call = NoCall
    /\ writeMu = 0
    /\ inWrite = {}

(***************************************************************************)
(* The routing table.                                                      *)
(***************************************************************************)
\* A delete loop that ignores the owner.
DeleteBindingsOf_All(rt, token) == [h \in Hosts |-> NoBinding]

\* The delete loop of applyRoutes and of cleanupAgent.
DeleteBindingsOf(rt, token) ==
    [h \in Hosts |-> IF rt[h].Token = token THEN NoBinding ELSE rt[h]]

\* The insert loop without the check of the target.
RECURSIVE InsertRoutes_NoTargetCheck(_, _, _, _)
InsertRoutes_NoTargetCheck(rt, token, rl, by) ==
    IF rl = <<>> THEN rt
    ELSE LET host == NormalizedHost[Head(rl).Hostname]
             target == TrimmedTarget[Head(rl).Target]
             next == IF host = <<>> THEN rt
                     ELSE [rt EXCEPT ![host] =
                              [Token |-> token, Target |-> target, by |-> by]]
         IN  InsertRoutes_NoTargetCheck(next, token, Tail(rl), by)

\* The insert loop of applyRoutes; "by" records the publishing session.
RECURSIVE InsertRoutes(_, _, _, _)
InsertRoutes(rt, token, rl, by) ==
    IF rl = <<>> THEN rt
    ELSE LET host == NormalizedHost[Head(rl).Hostname]
             target == TrimmedTarget[Head(rl).Target]
             next == IF host = <<>> \/ target = <<>> THEN rt
                     ELSE [rt EXCEPT ![host] =
                              [Token |-> token, Target |-> target, by |-> by]]
         IN  InsertRoutes(next, token, Tail(rl), by)

BindingsOf(rt, token) == {h \in Hosts : rt[h].Token = token}

(***************************************************************************)
(* HandleConnect, readLoop, cleanupAgent.                                  *)
(***************************************************************************)
\* HandleConnect up to newAgentSession: the upgrade succeeded for token t.
Accept(t) ==
    /\ nextConn <= MaxConn
    /\ connTok' = [connTok EXCEPT ![nextConn] = t]
    /\ hc' = [hc EXCEPT ![nextConn] = "accepted"]
    /\ nextConn' = nextConn + 1
    /\ UNCHANGED <<gwVars, prev, env, pending, gwClosed, peerClosed, inbound,
                   outbound, applied, reqVars>>

\* The same, for a client that is not the agent of this repository.
Upgrade(t) == Accept(t) /\ UNCHANGED agentVars

\* swapAgent that stores the next session only when the token has none.
swapAgent_KeepPrevious(c) ==
    /\ hc[c] = "accepted"
    /\ prev' = [prev EXCEPT ![c] = agents[connTok[c]]]
    /\ agents' = IF agents[connTok[c]] = NoSess
                 THEN [agents EXCEPT ![connTok[c]] = c]
                 ELSE agents
    /\ hc' = [hc EXCEPT ![c] = IF agents[connTok[c]] # NoSess THEN "swapped" ELSE "read"]
    /\ UNCHANGED <<agentVars,
                   routes, routesMu, requestSeq, nextConn, connTok, env, pending,
                   gwClosed, peerClosed, inbound, outbound, applied, reqVars>>

swapAgent(c) ==
    /\ hc[c] = "accepted"
    /\ prev' = [prev EXCEPT ![c] = agents[connTok[c]]]
    /\ agents' = [agents EXCEPT ![connTok[c]] = c]
    /\ hc' = [hc EXCEPT ![c] = IF agents[connTok[c]] # NoSess THEN "swapped" ELSE "read"]
    /\ UNCHANGED <<agentVars,
                   routes, routesMu, requestSeq, nextConn, connTok, env, pending,
                   gwClosed, peerClosed, inbound, outbound, applied, reqVars>>

\* previous.Conn.Close()
ClosePrevious(c) ==
    /\ hc[c] = "swapped"
    /\ gwClosed' = [gwClosed EXCEPT ![prev[c]] = TRUE]
    /\ hc' = [hc EXCEPT ![c] = "read"]
    /\ UNCHANGED <<agentVars,
                   gwVars, nextConn, connTok, prev, env, pending, peerClosed,
                   inbound, outbound, applied, reqVars>>

\* ReadJSON fails: the connection is closed (frames that arrived before the
\* close may still be read from the buffer first).
ReadError(c) ==
    /\ hc[c] = "read"
    /\ gwClosed[c] \/ (peerClosed[c] /\ inbound[c] = <<>>)
    /\ hc' = [hc EXCEPT ![c] = "cleanup"]
    /\ UNCHANGED <<agentVars,
                   gwVars, nextConn, connTok, prev, env, pending, gwClosed,
                   peerClosed, inbound, outbound, applied, reqVars>>

\* ReadJSON fails: the frame m cannot be decoded.
ReadBadFrame(c, m) ==
    /\ hc[c] = "read"
    /\ m.Type = "bad"
    /\ hc' = [hc EXCEPT ![c] = "cleanup"]
    /\ UNCHANGED <<agentVars,
                   gwVars, nextConn, connTok, prev, env, pending, gwClosed,
                   peerClosed, outbound, applied, reqVars>>

\* ReadJSON returns the register_routes envelope m; applyRoutes takes routesMu
\* and runs its delete loop.
applyRoutes(c, m) ==
    /\ hc[c] = "read"
    /\ m.Type = "register_routes"
    /\ routesMu = NoSess
    /\ routesMu' = c
    /\ routes' = DeleteBindingsOf(routes, connTok[c])
    /\ env' = [env EXCEPT ![c] = m]
    /\ hc' = [hc EXCEPT ![c] = "insert"]
    /\ UNCHANGED <<agentVars,
                   agents, requestSeq, nextConn, connTok, prev, pending, gwClosed,
                   peerClosed, outbound, applied, reqVars>>

\* applyRoutes: the insert loop, then routesMu is released.
applyRoutesInsert(c) ==
    /\ hc[c] = "insert"
    /\ routes' = InsertRoutes(routes, connTok[c], env[c].Routes, c)
    /\ routesMu' = NoSess
    /\ env' = [env EXCEPT ![c] = NoEnv]
    /\ applied' = [applied EXCEPT ![c] = TRUE]
    /\ hc' = [hc EXCEPT ![c] = "read"]
    /\ UNCHANGED <<agentVars,
                   agents, requestSeq, nextConn, connTok, prev, pending, gwClosed,
                   peerClosed, inbound, outbound, reqVars>>

\* A pending map shared by all sessions instead of one per session.
PopPending_AnySession(c, id) ==
    IF \E d \in Conns : pending[d][id] # 0
    THEN pending[CHOOSE d \in Conns : pending[d][id] # 0][id]
    ELSE 0

\* AgentSession.PopPending: the channel registered under id, 0 when absent.
PopPending(c, id) == pending[c][id]

\* PopPending without its delete.
PendingWithout_Keep(c, id) == pending

\* AgentSession.PopPending: delete(s.pending, requestID).
PendingWithout(c, id) == [pending EXCEPT ![c][id] = 0]

\* ReadJSON returns the proxy_response m: PopPending, then (if found) the send.
ReadResponse(c, m) ==
    /\ hc[c] = "read"
    /\ m.Type = "proxy_response"
    /\ IF m.RequestID # 0 /\ PopPending(c, m.RequestID) # 0
       THEN /\ pending' = PendingWithout(c, m.RequestID)
            /\ env' = [env EXCEPT ![c] =
                          [Type |-> "proxy_response", RequestID |-> m.RequestID,
                           Status |-> m.Status, via |-> c,
                           ch |-> PopPending(c, m.RequestID)]]
            /\ hc' = [hc EXCEPT ![c] = "send"]
       ELSE UNCHANGED <<pending, env, hc>>
    /\ UNCHANGED <<agentVars,
                   gwVars, nextConn, connTok, prev, gwClosed, peerClosed, outbound,
                   applied, reqVars>>

\* ch <- env: blocks while the channel's buffer is full.
SendResponse(c) ==
    /\ hc[c] = "send"
    /\ Len(respCh[env[c].ch]) < 1
    /\ respCh' = [respCh EXCEPT ![env[c].ch] = Append(@, env[c])]
    /\ env' = [env EXCEPT ![c] = NoEnv]
    /\ hc' = [hc EXCEPT ![c] = "read"]
    /\ UNCHANGED <<agentVars,
                   gwVars, nextConn, connTok, prev, pending, gwClosed, peerClosed,
                   inbound, outbound, applied, hp, hHost, hBinding, hSess, hId,
                   hWrote, hGot, hStatus>>

\* ReadJSON returns an error envelope or one of unknown type: logged only.
ReadOther(c, m) ==
    /\ hc[c] = "read"
    /\ m.Type = "error"
    /\ UNCHANGED <<agentVars,
                   gwVars, nextConn, connTok, hc, prev, env, pending, gwClosed,
                   peerClosed, outbound, applied, reqVars>>

\* readLoop: ReadJSON and the dispatch on the envelope's type.
ReadJSON(c, m) ==
    \/ ReadBadFrame(c, m)
    \/ applyRoutes(c, m)
    \/ ReadResponse(c, m)
    \/ ReadOther(c, m)

\* cleanupAgent that empties the registry.
cleanupAgent_AllEntries(c) ==
    /\ hc[c] = "cleanup"
    /\ agents' = [t \in Tenants |-> NoSess]
    /\ hc' = [hc EXCEPT ![c] = IF agents[connTok[c]] = c THEN "purge" ELSE "close"]
    /\ UNCHANGED <<agentVars,
                   routes, routesMu, requestSeq, nextConn, connTok, prev, env,
                   pending, gwClosed, peerClosed, inbound, outbound, applied, reqVars>>

\* cleanupAgent without the comparison with the current session.
cleanupAgent_NoCheck(c) ==
    /\ hc[c] = "cleanup"
    /\ agents' = [agents EXCEPT ![connTok[c]] = NoSess]
    /\ hc' = [hc EXCEPT ![c] = "purge"]
    /\ UNCHANGED <<agentVars,
                   routes, routesMu, requestSeq, nextConn, connTok, prev, env,
                   pending, gwClosed, peerClosed, inbound, outbound, applied, reqVars>>

\* cleanupAgent, under agentsMu: the registry entry is removed if it is this session.
cleanupAgent(c) ==
    /\ hc[c] = "cleanup"
    /\ IF agents[connTok[c]] = c
       THEN /\ agents' = [agents EXCEPT ![connTok[c]] = NoSess]
            /\ hc' = [hc EXCEPT ![c] = "purge"]
       ELSE /\ agents' = agents
            /\ hc' = [hc EXCEPT ![c] = "close"]
    /\ UNCHANGED <<agentVars,
                   routes, routesMu, requestSeq, nextConn, connTok, prev, env,
                   pending, gwClosed, peerClosed, inbound, outbound, applied, reqVars>>

\* cleanupAgent, under routesMu: the token's bindings are deleted.
cleanupRoutes(c) ==
    /\ hc[c] = "purge"
    /\ routesMu = NoSess
    /\ routes' = DeleteBindingsOf(routes, connTok[c])
    /\ hc' = [hc EXCEPT ![c] = "close"]
    /\ UNCHANGED <<agentVars,
                   agents, routesMu, requestSeq, nextConn, connTok, prev, env,
                   pending, gwClosed, peerClosed, inbound, outbound, applied, reqVars>>

\* readLoop's deferred session.Conn.Close()
CloseSelf(c) ==
    /\ hc[c] = "close"
    /\ gwClosed' = [gwClosed EXCEPT ![c] = TRUE]
    /\ inbound' = [inbound EXCEPT ![c] = <<>>]
    /\ hc' = [hc EXCEPT ![c] = "done"]
    /\ UNCHANGED <<agentVars,
                   gwVars, nextConn, connTok, prev, env, pending, peerClosed,
                   outbound, applied, reqVars>>

(***************************************************************************)
(* HandlePublicHTTP.                                                       *)
(***************************************************************************)
\* http.Error / writeResponse: the handler answers with status st and returns
\* (its deferred RemovePending, if any, is still to run).
Answer(h, st, next) ==
    /\ hStatus' = [hStatus EXCEPT ![h] = st]
    /\ hp' = [hp EXCEPT ![h] = next]

\* normalizeHost(r.Host) and the lookup in s.routes under routesMu.RLock.
LookupRoute(h, raw) ==
    /\ hp[h] = "idle"
    /\ IF h = 1 THEN TRUE ELSE hp[h - 1] # "idle"
    /\ LET host == NormalizedHost[raw]
       IN  IF host = <<>>
           THEN /\ hHost' = [hHost EXCEPT ![h] = host]
                /\ Answer(h, 400, "ret")
                /\ UNCHANGED hBinding
           ELSE /\ routesMu = NoSess
                /\ hHost' = [hHost EXCEPT ![h] = host]
                /\ IF routes[host] = NoBinding
                   THEN /\ Answer(h, 404, "ret")
                        /\ UNCHANGED hBinding
                   ELSE /\ hBinding' = [hBinding EXCEPT ![h] = routes[host]]
                        /\ hp' = [hp EXCEPT ![h] = "agents"]
                        /\ UNCHANGED hStatus
    /\ UNCHANGED <<agentVars,
                   gwVars, connVars, hSess, hId, hWrote, respCh, hGot>>

\* The lookup in s.agents under agentsMu.RLock.
LookupSession(h) ==
    /\ hp[h] = "agents"
    /\ IF agents[hBinding[h].Token] = NoSess
       THEN /\ Answer(h, 503, "ret")
            /\ UNCHANGED hSess
       ELSE /\ hSess' = [hSess EXCEPT ![h] = agents[hBinding[h].Token]]
            /\ hp' = [hp EXCEPT ![h] = "body"]
            /\ UNCHANGED hStatus
    /\ UNCHANGED <<agentVars,
                   gwVars, connVars, hHost, hBinding, hId, hWrote, respCh, hGot>>

\* The request id allocated before the body is read.
ReadBodyError_AfterAlloc(h) ==
    /\ hp[h] = "body"
    /\ requestSeq' = requestSeq + 1
    /\ hId' = [hId EXCEPT ![h] = requestSeq + 1]
    /\ Answer(h, 400, "ret")
    /\ UNCHANGED <<agentVars,
                   agents, routes, routesMu, connVars, hHost, hBinding, hSess,
                   hWrote, respCh, hGot>>

\* io.ReadAll of the request body fails.
ReadBodyError(h) ==
    /\ hp[h] = "body"
    /\ Answer(h, 400, "ret")
    /\ UNCHANGED <<agentVars,
                   gwVars, connVars, hHost, hBinding, hSess, hId, hWrote, respCh, hGot>>

\* The counter read without being incremented.
NextRequestID_Load == IF requestSeq = 0 THEN 1 ELSE requestSeq

\* The request id s.requestSeq.Add(1) hands out: strconv.FormatUint writes it
\* as a decimal string, one string per number, and the model keeps the number
\* (0 stands for the empty request_id).
NextRequestID == requestSeq + 1

\* strconv.FormatUint(n, 10): the decimal digits of n.
Digit(d) ==
    CASE d = 0 -> "0" [] d = 1 -> "1" [] d = 2 -> "2" [] d = 3 -> "3"
      [] d = 4 -> "4" [] d = 5 -> "5" [] d = 6 -> "6" [] d = 7 -> "7"
      [] d = 8 -> "8" [] d = 9 -> "9"

RECURSIVE FormatUint(_)
FormatUint(n) ==
    IF n < 10 THEN <<Digit(n)>> ELSE FormatUint(n \div 10) \o <<Digit(n % 10)>>

\* The body is read; requestID := requestSeq.Add(1); session.AddPending(requestID,
\* respCh). Nothing but this handler reads the counter in between.
AddPending(h) ==
    /\ hp[h] = "body"
    /\ requestSeq' = requestSeq + 1
    /\ hId' = [hId EXCEPT ![h] = NextRequestID]
    /\ pending' = [pending EXCEPT ![hSess[h]][NextRequestID] = h]
    /\ hp' = [hp EXCEPT ![h] = "write"]
    /\ UNCHANGED <<agentVars,
                   agents, routes, routesMu, nextConn, connTok, hc, prev, env,
                   gwClosed, peerClosed, inbound, outbound, applied, hHost,
                   hBinding, hSess, hWrote, respCh, hGot, hStatus>>

\* session.Write fails: the connection is closed.
WriteError(h) ==
    /\ hp[h] = "write"
    /\ gwClosed[hSess[h]] \/ peerClosed[hSess[h]]
    /\ Answer(h, 502, "defer")
    /\ UNCHANGED <<agentVars,
                   gwVars, connVars, hHost, hBinding, hSess, hId, hWrote, respCh, hGot>>

\* session.Write succeeds: the handler goes on to wait on respCh.
WriteDone(h) ==
    /\ hp[h] = "write"
    /\ ~gwClosed[hSess[h]]
    /\ hWrote' = [hWrote EXCEPT ![h] = TRUE]
    /\ hp' = [hp EXCEPT ![h] = "wait"]
    /\ UNCHANGED <<agentVars,
                   gwVars, nextConn, connTok, hc, prev, env, pending, gwClosed,
                   peerClosed, inbound, applied, hHost, hBinding, hSess, hId,
                   respCh, hGot, hStatus>>

\* session.Write: the frame goes into the socket, which takes it while its buffer
\* has room (a frame sent to a peer that is gone is lost).
Write(h) ==
    /\ WriteDone(h)
    /\ IF peerClosed[hSess[h]]
       THEN UNCHANGED outbound
       ELSE /\ Len(outbound[hSess[h]]) < SockBuf
            /\ outbound' = [outbound EXCEPT ![hSess[h]] = Append(@, hId[h])]

\* session.Write to a peer that reads the frame at once.
WriteTaken(h) ==
    /\ WriteDone(h)
    /\ UNCHANGED outbound

\* writeResponse: the status sent for a response envelope.
ResponseStatus(resp) == IF resp.Status = 0 THEN 502 ELSE resp.Status

\* select: case resp := <-respCh
ReceiveResponse(h) ==
    /\ hp[h] = "wait"
    /\ respCh[h] # <<>>
    /\ hGot' = [hGot EXCEPT ![h] = Head(respCh[h])]
    /\ respCh' = [respCh EXCEPT ![h] = Tail(@)]
    /\ Answer(h, ResponseStatus(Head(respCh[h])), "defer")
    /\ UNCHANGED <<agentVars,
                   gwVars, connVars, hHost, hBinding, hSess, hId, hWrote>>

\* select: case <-time.After(s.requestTimeout)
Timeout(h) ==
    /\ hp[h] = "wait"
    /\ Answer(h, 504, "defer")
    /\ UNCHANGED <<agentVars,
                   gwVars, connVars, hHost, hBinding, hSess, hId, hWrote, respCh, hGot>>

\* The handler's locals are gone once it has returned.
Forget(h) ==
    /\ hp' = [hp EXCEPT ![h] = "done"]
    /\ hHost' = [hHost EXCEPT ![h] = NoHost]
    /\ hBinding' = [hBinding EXCEPT ![h] = NoBinding]
    /\ hSess' = [hSess EXCEPT ![h] = NoSess]
    /\ hId' = [hId EXCEPT ![h] = 0]
    /\ hWrote' = [hWrote EXCEPT ![h] = FALSE]
    /\ hGot' = [hGot EXCEPT ![h] = NoEnv]
    /\ hStatus' = [hStatus EXCEPT ![h] = 0]

\* return, on the paths that registered no slot.
Return(h) ==
    /\ hp[h] = "ret"
    /\ Forget(h)
    /\ UNCHANGED <<agentVars, gwVars, connVars, respCh>>

\* The return without the deferred RemovePending.
RemovePending_NoDelete(h) ==
    /\ hp[h] = "defer"
    /\ Forget(h)
    /\ UNCHANGED <<agentVars, gwVars, connVars, respCh>>

\* The return that empties the session's pending map.
RemovePending_ClearAll(h) ==
    /\ hp[h] = "defer"
    /\ pending' = [pending EXCEPT ![hSess[h]] = [i \in Ids |-> 0]]
    /\ Forget(h)
    /\ UNCHANGED <<agentVars,
                   gwVars, nextConn, connTok, hc, prev, env, gwClosed, peerClosed,
                   inbound, outbound, applied, respCh>>

\* defer session.RemovePending(requestID), and the return.
RemovePending(h) ==
    /\ hp[h] = "defer"
    /\ pending' = [pending EXCEPT ![hSess[h]][hId[h]] = 0]
    /\ Forget(h)
    /\ UNCHANGED <<agentVars,
                   gwVars, nextConn, connTok, hc, prev, env, gwClosed, peerClosed,
                   inbound, outbound, applied, respCh>>

(***************************************************************************)
(* The peer of a control connection: any client that knows a token.        *)
(***************************************************************************)
\* The client has sent m, and the reader reads it.
ClientSend(c, m) ==
    /\ ~peerClosed[c]
    /\ m.Type = "proxy_response" => m.RequestID <= requestSeq
    /\ ReadJSON(c, m)
    /\ UNCHANGED inbound

\* The client reads a frame from the socket.
ClientReceive(c) ==
    /\ outbound[c] # <<>>
    /\ outbound' = [outbound EXCEPT ![c] = Tail(@)]
    /\ UNCHANGED <<agentVars,
                   gwVars, nextConn, connTok, hc, prev, env, pending, gwClosed,
                   peerClosed, inbound, applied, reqVars>>

\* The client closes the connection, or the transport fails.
ClientClose(c) ==
    /\ hc[c] # "none"
    /\ ~gwClosed[c] /\ ~peerClosed[c]
    /\ peerClosed' = [peerClosed EXCEPT ![c] = TRUE]
    /\ UNCHANGED <<agentVars,
                   gwVars, nextConn, connTok, hc, prev, env, pending, gwClosed,
                   inbound, outbound, applied, reqVars>>

(***************************************************************************)
(* The agent of this repository: Service.connectLoop, connectOnce,         *)
(* publishRoutes, writeEnvelope, handleProxyRequest, routeSyncLoop.        *)
(***************************************************************************)
AgentToken == "t1"

\* A mutex that is never found locked.
Locked_Never(mu) == FALSE

\* sync.Mutex: Lock blocks while the mutex has a holder.
Locked(mu) == mu # 0

\* Service.writeMu is free: writeEnvelope writes while it holds it.
Unlocked == ~Locked(writeMu)

\* The connection is no longer open at one end.
Broken(c) == gwClosed[c] \/ peerClosed[c]

\* connectOnce: DialContext succeeds, setConn, setConnected(true).
Dial ==
    /\ cl = "dial"
    /\ nextConn <= AgentConns
    /\ Accept(AgentToken)
    /\ aConn' = nextConn
    /\ cl' = "list"
    /\ UNCHANGED <<storeRoutes, fileRoutes, cList, sl, sList, polled, tasks,
                   admin, runVars>>

\* publishRoutes called from connectOnce: routes := s.store.List()
ConnectList ==
    /\ cl = "list"
    /\ cList' = List(storeRoutes)
    /\ cl' = "write"
    /\ UNCHANGED <<gwVars, connVars, reqVars, storeRoutes, fileRoutes, aConn,
                   sl, sList, polled, tasks, admin, runVars>>

\* publishRoutes called from connectOnce: writeEnvelope; an error ends
\* connectOnce.
ConnectWrite ==
    /\ cl = "write"
    /\ Unlocked
    /\ IF Broken(aConn)
       THEN /\ cl' = "closing"
            /\ UNCHANGED inbound
       ELSE /\ Len(inbound[aConn]) < MaxInbound
            /\ inbound' = [inbound EXCEPT ![aConn] = Append(@, RegisterRoutes(cList))]
            /\ cl' = "read"
    /\ cList' = <<>>
    /\ UNCHANGED <<gwVars, nextConn, connTok, hc, prev, env, pending, gwClosed,
                   peerClosed, outbound, applied, reqVars, storeRoutes,
                   fileRoutes, aConn, sl, sList, polled, tasks, admin, runVars>>

\* connectOnce's read loop: a proxy_request starts a goroutine.
AgentReadRequest ==
    /\ cl = "read"
    /\ outbound[aConn] # <<>>
    /\ tasks' = tasks \cup {Head(outbound[aConn])}
    /\ outbound' = [outbound EXCEPT ![aConn] = Tail(@)]
    /\ UNCHANGED <<gwVars, nextConn, connTok, hc, prev, env, pending, gwClosed,
                   peerClosed, inbound, applied, reqVars, storeRoutes,
                   fileRoutes, aConn, cl, cList, sl, sList, polled, admin, runVars>>

\* connectOnce's read loop: ReadJSON fails.
AgentReadError ==
    /\ cl = "read"
    /\ Broken(aConn)
    /\ outbound[aConn] = <<>>
    /\ cl' = "closing"
    /\ UNCHANGED <<gwVars, connVars, reqVars, storeRoutes, fileRoutes, aConn,
                   cList, sl, sList, polled, tasks, admin, runVars>>

\* connectOnce's deferred clearConn and conn.Close, then connectLoop's backoff.
AgentClose ==
    /\ cl = "closing"
    /\ peerClosed' = [peerClosed EXCEPT ![aConn] = TRUE]
    /\ aConn' = NoSess
    /\ cl' = "dial"
    /\ UNCHANGED <<gwVars, nextConn, connTok, hc, prev, env, pending, gwClosed,
                   inbound, outbound, applied, reqVars, storeRoutes, fileRoutes,
                   cList, sl, sList, polled, tasks, admin, runVars>>

\* handleProxyRequest: forwardToLocal, then writeEnvelope on the connection
\* getConn returns now; a write error is logged.
handleProxyRequest(id) ==
    /\ id \in tasks
    /\ Unlocked
    /\ tasks' = tasks \ {id}
    /\ IF aConn = NoSess \/ Broken(aConn)
       THEN UNCHANGED inbound
       ELSE /\ Len(inbound[aConn]) < MaxInbound
            /\ inbound' = [inbound EXCEPT ![aConn] = Append(@, ProxyResponse(id, 200))]
    /\ UNCHANGED <<gwVars, nextConn, connTok, hc, prev, env, pending, gwClosed,
                   peerClosed, outbound, applied, reqVars, storeRoutes,
                   fileRoutes, aConn, cl, cList, sl, sList, polled, admin, runVars>>

\* base64.StdEncoding.DecodeString succeeds: groups of four characters of the
\* encoding's alphabet, "=" only as the padding of the last group.
Base64Char(c) ==
    c \in {"/", "1", "2", "8", "A", "B", "C", "D", "X", "Y", "a", "b", "c", "d",
           "h", "p", "s", "t", "x", "y"}

Base64Valid(body) ==
    /\ Len(body) % 4 = 0
    /\ \A i \in 1..Len(body) :
          \/ Base64Char(body[i])
          \/ /\ body[i] = "=" /\ i >= Len(body) - 1
             /\ body[Len(body)] = "="

B_padded == <<"a", "b", "=", "=">>
B_bad == <<"a", "?">>

\* A proxy_request envelope as the agent decodes it.
ProxyRequest(id, target, body) ==
    [Type |-> "proxy_request", RequestID |-> id, Target |-> target, Body |-> body]

\* What http.NewRequest and the call of the local service come to: the
\* request cannot be built, the dial fails, the client's timeout expires, the
\* body of the reply cannot be read, or the service replies with a status.
LocalOutcomes ==
    { [kind |-> k, code |-> 0] : k \in {"build", "dial", "timeout", "read"} } \cup
    { [kind |-> "reply", code |-> st] : st \in {200, 500} }

\* forwardToLocal that hands on what the local call returned.
forwardToLocal_NoWrap(req, out) ==
    [Status |-> out.code, Plain |-> FALSE]

\* Service.forwardToLocal: the status, and whether the body is the agent's
\* plaintext diagnostic.
forwardToLocal(req, out) ==
    IF req.Target = <<>> THEN [Status |-> 502, Plain |-> TRUE]
    ELSE IF ~Base64Valid(req.Body) THEN [Status |-> 400, Plain |-> TRUE]
    ELSE IF out.kind # "reply" THEN [Status |-> 502, Plain |-> TRUE]
    ELSE [Status |-> out.code, Plain |-> FALSE]

\* The response envelope with the request id left empty.
ResponseTo_NoID(req, r) ==
    [Type |-> "proxy_response", RequestID |-> 0, Status |-> r.Status,
     Plain |-> r.Plain]

\* handleProxyRequest: the response envelope built for req.
ResponseTo(req, r) ==
    [Type |-> "proxy_response", RequestID |-> req.RequestID, Status |-> r.Status,
     Plain |-> r.Plain]

\* A server writes a proxy_request with the next request id, any target and
\* any body, on the agent's connection.
ServerSend(target, body) ==
    /\ aConn # NoSess /\ ~Broken(aConn)
    /\ requestSeq < MaxReq
    /\ Len(outbound[aConn]) < SockBuf
    /\ requestSeq' = requestSeq + 1
    /\ outbound' = [outbound EXCEPT ![aConn] =
                       Append(@, ProxyRequest(requestSeq + 1, target, body))]
    /\ UNCHANGED <<agents, routes, routesMu, nextConn, connTok, hc, prev, env,
                   pending, gwClosed, peerClosed, inbound, applied, reqVars,
                   agentVars>>

\* The goroutine of handleProxyRequest has called forwardToLocal.
Forwarded(task) == "resp" \in DOMAIN task

\* handleProxyRequest: forwardToLocal(req), the local call coming to "out",
\* and the response envelope; the goroutine keeps them until it writes.
ForwardRequest(req, out) ==
    /\ req \in tasks /\ ~Forwarded(req)
    /\ tasks' = (tasks \ {req}) \cup
                   { [req |-> req, local |-> out,
                      resp |-> ResponseTo(req, forwardToLocal(req, out))] }
    /\ UNCHANGED <<gwVars, connVars, reqVars, storeRoutes, fileRoutes, aConn,
                   cl, cList, sl, sList, polled, admin, runVars>>

\* handleProxyRequest: writeEnvelope(resp) on the connection getConn returns
\* now; a write error is logged.
WriteProxyResponse(task) ==
    /\ task \in tasks /\ Forwarded(task)
    /\ Unlocked
    /\ tasks' = tasks \ {task}
    /\ IF aConn = NoSess \/ Broken(aConn)
       THEN UNCHANGED inbound
       ELSE /\ Len(inbound[aConn]) < MaxInbound
            /\ inbound' = [inbound EXCEPT ![aConn] = Append(@, task.resp)]
    /\ UNCHANGED <<gwVars, nextConn, connTok, hc, prev, env, pending, gwClosed,
                   peerClosed, outbound, applied, reqVars, storeRoutes,
                   fileRoutes, aConn, cl, cList, sl, sList, polled, admin, runVars>>

\* The goroutine of handleProxyRequest is in writeEnvelope, past getConn.
InEnvelope(task) == "conn" \in DOMAIN task

\* writeEnvelope called from handleProxyRequest: conn := s.getConn(); without
\* a connection the error is logged and the goroutine ends.
getConn(task) ==
    /\ task \in tasks /\ Forwarded(task) /\ ~InEnvelope(task)
    /\ tasks' = IF aConn = NoSess
                THEN tasks \ {task}
                ELSE (tasks \ {task}) \cup
                        { [req |-> task.req, local |-> task.local,
                           resp |-> task.resp, conn |-> aConn] }
    /\ UNCHANGED <<gwVars, connVars, reqVars, storeRoutes, fileRoutes, aConn,
                   cl, cList, sl, sList, polled, admin, ctxDone, loopAt, backoff,
                   dials, syncAt, call, writeMu, inWrite>>

\* writeEnvelope: s.writeMu.Lock() returns and conn.WriteJSON begins.
LockWrite(task) ==
    /\ task \in tasks /\ InEnvelope(task)
    /\ task.req.RequestID \notin inWrite
    /\ ~Locked(writeMu)
    /\ writeMu' = task.req.RequestID
    /\ inWrite' = inWrite \cup {task.req.RequestID}
    /\ UNCHANGED <<gwVars, connVars, reqVars, storeRoutes, fileRoutes, aConn,
                   cl, cList, sl, sList, polled, tasks, admin, ctxDone, loopAt,
                   backoff, dials, syncAt, call>>

\* writeEnvelope: conn.WriteJSON writes the frame on the connection getConn
\* returned, or fails; the deferred Unlock; a write error is logged.
UnlockWrite(task) ==
    /\ task \in tasks /\ InEnvelope(task)
    /\ task.req.RequestID \in inWrite
    /\ IF Broken(task.conn)
       THEN UNCHANGED inbound
       ELSE /\ Len(inbound[task.conn]) < MaxInbound
            /\ inbound' = [inbound EXCEPT ![task.conn] = Append(@, task.resp)]
    /\ inWrite' = inWrite \ {task.req.RequestID}
    /\ writeMu' = 0
    /\ tasks' = tasks \ {task}
    /\ UNCHANGED <<gwVars, nextConn, connTok, hc, prev, env, pending, gwClosed,
                   peerClosed, outbound, applied, reqVars, storeRoutes,
                   fileRoutes, aConn, cl, cList, sl, sList, polled, admin,
                   ctxDone, loopAt, backoff, dials, syncAt, call>>

\* syncRoutesFromControl up to ReplaceAll: the endpoint answers CtlRoutes;
\* "saved" tells whether saveLocked succeeds.
ReplaceAll(saved) ==
    /\ sl = "idle"
    /\ IF CtlNext.err
       THEN /\ polled' = FALSE
            /\ UNCHANGED <<storeRoutes, fileRoutes, sl>>
       ELSE IF CtlNext.routes = storeRoutes
       THEN /\ polled' = TRUE
            /\ UNCHANGED <<storeRoutes, fileRoutes, sl>>
       ELSE /\ storeRoutes' = CtlNext.routes
            /\ IF saved
               THEN /\ fileRoutes' = CtlNext.routes
                    /\ sl' = "list"
                    /\ UNCHANGED polled
               ELSE /\ polled' = FALSE
                    /\ UNCHANGED <<fileRoutes, sl>>
    /\ UNCHANGED <<gwVars, connVars, reqVars, aConn, cl, cList, sList, tasks,
                   admin, runVars>>

\* publishRoutes called from syncRoutesFromControl: routes := s.store.List()
SyncList ==
    /\ sl = "list"
    /\ sList' = List(storeRoutes)
    /\ sl' = "write"
    /\ UNCHANGED <<gwVars, connVars, reqVars, storeRoutes, fileRoutes, aConn,
                   cl, cList, polled, tasks, admin, runVars>>

\* publishRoutes called from syncRoutesFromControl: writeEnvelope; an error is
\* logged.
SyncWrite ==
    /\ sl = "write"
    /\ Unlocked
    /\ IF aConn = NoSess \/ Broken(aConn)
       THEN UNCHANGED inbound
       ELSE /\ Len(inbound[aConn]) < MaxInbound
            /\ inbound' = [inbound EXCEPT ![aConn] = Append(@, RegisterRoutes(sList))]
    /\ sl' = "idle"
    /\ sList' = <<>>
    /\ polled' = TRUE
    /\ UNCHANGED <<gwVars, nextConn, connTok, hc, prev, env, pending, gwClosed,
                   peerClosed, outbound, applied, reqVars, storeRoutes,
                   fileRoutes, aConn, cl, cList, tasks, admin, runVars>>

\* What the control endpoint's answer to a poll can come to short of a
\* decoded payload: httpClient.Do fails, the status is not 200, or the body
\* does not decode.
FailedPolls ==
    { [kind |-> "transport", status |-> 0],
      [kind |-> "status", status |-> 204],
      [kind |-> "status", status |-> 500],
      [kind |-> "decode", status |-> 200] }

SkipPositions == { "transport", "status", "decode" }

\* syncRoutesFromControl: the poll comes to "answer"; the function is at the
\* log.Printf of that branch.
SyncFails(answer) ==
    /\ sl = "idle"
    /\ sl' = answer.kind
    /\ UNCHANGED <<gwVars, connVars, reqVars, storeRoutes, fileRoutes, aConn,
                   cl, cList, sList, polled, tasks, admin, runVars>>

\* A failed poll that goes on to publishRoutes.
SyncSkip_Publish ==
    /\ sl \in SkipPositions
    /\ sl' = "list"
    /\ polled' = FALSE
    /\ UNCHANGED <<gwVars, connVars, reqVars, storeRoutes, fileRoutes, aConn,
                   cl, cList, sList, tasks, admin, runVars>>

\* syncRoutesFromControl: the return after the log.Printf of a failed poll.
SyncSkip ==
    /\ sl \in SkipPositions
    /\ sl' = "idle"
    /\ polled' = FALSE
    /\ UNCHANGED <<gwVars, connVars, reqVars, storeRoutes, fileRoutes, aConn,
                   cl, cList, sList, tasks, admin, runVars>>

(***************************************************************************)
(* The agent's admin API: handleStatus, handleRoutes, handleRouteByHost.   *)
(* "url" is Service.routeSyncURL.                                          *)
(***************************************************************************)
\* The check that never refuses.
Forbidden_Never(url) == FALSE

\* s.routeSyncURL != "": the routes are managed by the control plane.
Forbidden(url) == url # ""

\* Service.connected, set by connectOnce and cleared by its deferred function.
Connected == cl \in {"list", "write", "read", "closing"}

\* The response written for the request req.
AdminResponse(req, status, body) ==
    [req |-> req, pos |-> "idle", status |-> status, body |-> body]

\* The handler of req has changed the store and goes on to SyncRoutes.
AdminSync(req) == [req |-> req, pos |-> "list", status |-> 0, body |-> <<>>]

\* GET /api/status
handleStatus(url) ==
    /\ admin.pos = "idle"
    /\ admin' = AdminResponse("GET /api/status", 200,
                   << [Connected |-> Connected, ManagedByControl |-> url # ""] >>)
    /\ UNCHANGED <<gwVars, connVars, reqVars, storeRoutes, fileRoutes, aConn,
                   cl, cList, sl, sList, polled, tasks,
                   runVars>>

\* GET /api/routes
handleRoutesGet ==
    /\ admin.pos = "idle"
    /\ admin' = AdminResponse("GET /api/routes", 200, List(storeRoutes))
    /\ UNCHANGED <<gwVars, connVars, reqVars, storeRoutes, fileRoutes, aConn,
                   cl, cList, sl, sList, polled, tasks,
                   runVars>>

\* POST /api/routes with a body that decodes: the check of the mode, then
\* store.Upsert, which assigns s.routes[host] before saveLocked; "saved" tells
\* whether saveLocked succeeds.
handleRoutesPost(url, hostname, target, saved) ==
    /\ admin.pos = "idle"
    /\ LET req == "POST /api/routes"
           h == NormalizeHostname(hostname)
           t == NormalizeTarget(target)
       IN  IF Forbidden(url)
           THEN /\ admin' = AdminResponse(req, 403, <<>>)
                /\ UNCHANGED <<storeRoutes, fileRoutes>>
           ELSE IF h.err \/ t.err
           THEN /\ admin' = AdminResponse(req, 400, <<>>)
                /\ UNCHANGED <<storeRoutes, fileRoutes>>
           ELSE /\ storeRoutes' = [storeRoutes EXCEPT ![h.host] = t.target]
                /\ IF saved
                   THEN /\ fileRoutes' = [storeRoutes EXCEPT ![h.host] = t.target]
                        /\ admin' = AdminSync(req)
                   ELSE /\ admin' = AdminResponse(req, 400, <<>>)
                        /\ UNCHANGED fileRoutes
    /\ UNCHANGED <<gwVars, connVars, reqVars, aConn, cl, cList, sl, sList,
                   polled, tasks,
                   runVars>>

\* DELETE /api/routes/{hostname}: the check of the mode, then store.Delete.
handleRouteByHost(url, hostname, saved) ==
    /\ admin.pos = "idle"
    /\ LET req == "DELETE /api/routes/"
           h == NormalizeHostname(hostname)
       IN  IF Forbidden(url)
           THEN /\ admin' = AdminResponse(req, 403, <<>>)
                /\ UNCHANGED <<storeRoutes, fileRoutes>>
           ELSE IF hostname = <<>> \/ h.err
           THEN /\ admin' = AdminResponse(req, 400, <<>>)
                /\ UNCHANGED <<storeRoutes, fileRoutes>>
           ELSE /\ storeRoutes' = [storeRoutes EXCEPT ![h.host] = NoTarget]
                /\ IF saved
                   THEN /\ fileRoutes' = [storeRoutes EXCEPT ![h.host] = NoTarget]
                        /\ admin' = AdminSync(req)
                   ELSE /\ admin' = AdminResponse(req, 400, <<>>)
                        /\ UNCHANGED fileRoutes
    /\ UNCHANGED <<gwVars, connVars, reqVars, aConn, cl, cList, sl, sList,
                   polled, tasks,
                   runVars>>

\* SyncRoutes called from the admin API: routes := s.store.List()
AdminList ==
    /\ admin.pos = "list"
    /\ admin' = [admin EXCEPT !.pos = "write", !.body = List(storeRoutes)]
    /\ UNCHANGED <<gwVars, connVars, reqVars, storeRoutes, fileRoutes, aConn,
                   cl, cList, sl, sList, polled, tasks,
                   runVars>>

\* SyncRoutes called from the admin API: writeEnvelope, whose error becomes
\* the response's warning; then the response with s.store.List().
AdminWrite ==
    /\ admin.pos = "write"
    /\ Unlocked
    /\ IF aConn = NoSess \/ Broken(aConn)
       THEN UNCHANGED inbound
       ELSE /\ Len(inbound[aConn]) < MaxInbound
            /\ inbound' = [inbound EXCEPT ![aConn] =
                              Append(@, RegisterRoutes(admin.body))]
    /\ admin' = AdminResponse(admin.req, 200, List(storeRoutes))
    /\ UNCHANGED <<gwVars, nextConn, connTok, hc, prev, env, pending, gwClosed,
                   peerClosed, outbound, applied, reqVars, storeRoutes,
                   fileRoutes, aConn, cl, cList, sl, sList, polled, tasks,
                   runVars>>

\* readLoop: ReadJSON returns the next frame the agent wrote.
ReadFrame(c) ==
    /\ inbound[c] # <<>>
    /\ applyRoutes(c, Head(inbound[c])) \/ ReadResponse(c, Head(inbound[c]))
    /\ inbound' = [inbound EXCEPT ![c] = Tail(@)]

\* The control channel is lost.
ChannelLost ==
    /\ aConn # NoSess
    /\ nextConn <= AgentConns
    /\ ClientClose(aConn)

(***************************************************************************)
(* Single calls of the normalisation functions, on every string of up to   *)
(* MaxLen characters.                                                      *)
(***************************************************************************)
Strings(chars) == UNION { [1..n -> chars] : n \in 0..MaxLen }

HostChars == { "a", "A", ".", " ", "\t", ":" }
TargetChars == { "x", ":", " ", "\t", "1" }

\* No second call yet.
NoResult == [done |-> FALSE, err |-> FALSE, out |-> <<>>]

\* The result of fn(arg), and of fn applied to it once more.
Called(fn, arg, err, out) ==
    [fn |-> fn, arg |-> arg, err |-> err, out |-> out, again |-> NoResult]

\* host, err := NormalizeHostname(hostname)
CallNormalizeHostname(hostname) ==
    /\ call = NoCall
    /\ LET r == NormalizeHostname(hostname)
       IN  call' = Called("NormalizeHostname", hostname, r.err, r.host)
    /\ UNCHANGED <<sysVars, loopVars>>

\* t, err := NormalizeTarget(target)
CallNormalizeTarget(target) ==
    /\ call = NoCall
    /\ LET r == NormalizeTarget(target)
       IN  call' = Called("NormalizeTarget", target, r.err, r.target)
    /\ UNCHANGED <<sysVars, loopVars>>

\* The function is called on the value it returned without an error.
CallAgain ==
    /\ call.fn \in {"NormalizeHostname", "NormalizeTarget"}
    /\ ~call.err
    /\ ~call.again.done
    /\ LET h == NormalizeHostname(call.out)
           t == NormalizeTarget(call.out)
       IN  call' = [call EXCEPT !.again =
                       IF call.fn = "NormalizeHostname"
                       THEN [done |-> TRUE, err |-> h.err, out |-> h.host]
                       ELSE [done |-> TRUE, err |-> t.err, out |-> t.target]]
    /\ UNCHANGED <<sysVars, loopVars>>

(***************************************************************************)
(* Service.Run: connectLoop with its backoff, routeSyncLoop, and the       *)
(* cancellation of ctx. connectOnce is followed from its call to its       *)
(* return; seconds are the unit of time.                                   *)
(***************************************************************************)
\* The backoff that doubles without the cap.
NextBackoff_NoCap(b) == b * 2

\* connectLoop: if backoff < 10s { backoff *= 2; if backoff > 10s { backoff = 10s } }
NextBackoff(b) ==
    IF b < 10 THEN (IF b * 2 > 10 THEN 10 ELSE b * 2) ELSE b

\* signal.NotifyContext: the process receives SIGINT or SIGTERM.
Cancel ==
    /\ ~ctxDone
    /\ ctxDone' = TRUE
    /\ UNCHANGED <<sysVars, loopAt, backoff, dials, syncAt, call>>

\* connectLoop: select { case <-ctx.Done(): return nil; default: }, then the
\* call of connectOnce.
LoopSelect ==
    /\ loopAt = "select"
    /\ IF ctxDone
       THEN /\ loopAt' = "returned"
            /\ UNCHANGED dials
       ELSE /\ dials < MaxDials
            /\ loopAt' = "dial"
            /\ dials' = dials + 1
    /\ UNCHANGED <<sysVars, ctxDone, backoff, syncAt, call>>

\* connectOnce: DialContext returns an error (the gateway refuses, the
\* handshake times out, or ctx is cancelled), or publishRoutes fails.
DialFails ==
    /\ loopAt = "dial"
    /\ loopAt' = "wait"
    /\ UNCHANGED <<sysVars, ctxDone, backoff, dials, syncAt, call>>

\* connectOnce: DialContext and publishRoutes succeed; the goroutine is in
\* conn.ReadJSON from now on, whatever envelopes it reads.
DialSucceeds ==
    /\ loopAt = "dial"
    /\ ~ctxDone
    /\ loopAt' = "read"
    /\ UNCHANGED <<sysVars, ctxDone, backoff, dials, syncAt, call>>

\* connectOnce: conn.ReadJSON returns an error because the gateway closed the
\* connection or the transport failed; the deferred function closes it.
ReadFails ==
    /\ loopAt = "read"
    /\ loopAt' = "wait"
    /\ UNCHANGED <<sysVars, ctxDone, backoff, dials, syncAt, call>>

\* connectLoop: select { case <-ctx.Done(): return nil; ... }
WaitDone ==
    /\ loopAt = "wait"
    /\ ctxDone
    /\ loopAt' = "returned"
    /\ UNCHANGED <<sysVars, ctxDone, backoff, dials, syncAt, call>>

\* connectLoop: select { ... case <-time.After(backoff): }
WaitTimer ==
    /\ loopAt = "wait"
    /\ loopAt' = "double"
    /\ UNCHANGED <<sysVars, ctxDone, backoff, dials, syncAt, call>>

\* connectLoop: the update of backoff at the end of the loop's body.
Double ==
    /\ loopAt = "double"
    /\ backoff' = NextBackoff(backoff)
    /\ loopAt' = "select"
    /\ UNCHANGED <<sysVars, ctxDone, dials, syncAt, call>>

\* routeSyncLoop: syncRoutesFromControl returns; its request has a timeout
\* of 12 seconds and ctx as parent.
SyncReturns ==
    /\ syncAt = "sync"
    /\ syncAt' = "select"
    /\ UNCHANGED <<sysVars, ctxDone, loopAt, backoff, dials, call>>

\* routeSyncLoop: select { case <-ctx.Done(): return; ... }
SyncDone ==
    /\ syncAt = "select"
    /\ ctxDone
    /\ syncAt' = "returned"
    /\ UNCHANGED <<sysVars, ctxDone, loopAt, backoff, dials, call>>

\* routeSyncLoop: select { ... case <-ticker.C: s.syncRoutesFromControl(ctx) }
SyncTick ==
    /\ syncAt = "select"
    /\ syncAt' = "sync"
    /\ UNCHANGED <<sysVars, ctxDone, loopAt, backoff, dials, call>>

(***************************************************************************)
(* Header maps on the two legs: the keys of a map[string][]string, each a  *)
(* sequence of characters. stripHopHeaders is the same function in the     *)
(* gateway and in the agent.                                               *)
(***************************************************************************)
UpperLetters ==
    << "A", "B", "C", "D", "E", "F", "G", "H", "I", "J", "K", "L", "M", "N",
       "O", "P", "Q", "R", "S", "T", "U", "V", "W", "X", "Y", "Z" >>
LowerLetters ==
    << "a", "b", "c", "d", "e", "f", "g", "h", "i", "j", "k", "l", "m", "n",
       "o", "p", "q", "r", "s", "t", "u", "v", "w", "x", "y", "z" >>

LetterAt(c, letters) ==
    IF \E i \in 1..26 : letters[i] = c
    THEN CHOOSE i \in 1..26 : letters[i] = c
    ELSE 0

LowerASCII(c) == IF LetterAt(c, UpperLetters) = 0 THEN c
                 ELSE LowerLetters[LetterAt(c, UpperLetters)]
UpperASCII(c) == IF LetterAt(c, LowerLetters) = 0 THEN c
                 ELSE UpperLetters[LetterAt(c, LowerLetters)]

\* strings.ToLower(key)
KeyToLower(key) == [i \in 1..Len(key) |-> LowerASCII(key[i])]

\* The key under which http.Header.Add stores: the first letter and every
\* letter after a hyphen in upper case, the others in lower case.
CanonicalMIMEHeaderKey(key) ==
    [i \in 1..Len(key) |->
        IF i = 1 \/ key[i - 1] = "-" THEN UpperASCII(key[i]) ELSE LowerASCII(key[i])]

\* The keys stripHopHeaders deletes, as written and in lower case.
HopKeys ==
    { <<"C", "o", "n", "n", "e", "c", "t", "i", "o", "n">>,
      <<"P", "r", "o", "x", "y", "-", "C", "o", "n", "n", "e", "c", "t", "i", "o", "n">>,
      <<"K", "e", "e", "p", "-", "A", "l", "i", "v", "e">>,
      <<"P", "r", "o", "x", "y", "-", "A", "u", "t", "h", "e", "n", "t", "i", "c", "a", "t", "e">>,
      <<"P", "r", "o", "x", "y", "-", "A", "u", "t", "h", "o", "r", "i", "z", "a", "t", "i", "o", "n">>,
      <<"T", "e">>,
      <<"T", "r", "a", "i", "l", "e", "r">>,
      <<"T", "r", "a", "n", "s", "f", "e", "r", "-", "E", "n", "c", "o", "d", "i", "n", "g">>,
      <<"U", "p", "g", "r", "a", "d", "e">> }

stripHopHeaders(headers) ==
    headers \ (HopKeys \cup { KeyToLower(key) : key \in HopKeys })

K_Connection == <<"C", "o", "n", "n", "e", "c", "t", "i", "o", "n">>
K_connection == <<"c", "o", "n", "n", "e", "c", "t", "i", "o", "n">>
K_CONNECTION == <<"C", "O", "N", "N", "E", "C", "T", "I", "O", "N">>
K_KeepAlive == <<"K", "e", "e", "p", "-", "A", "l", "i", "v", "e">>
K_keepalive == <<"k", "e", "e", "p", "-", "a", "l", "i", "v", "e">>
K_Te == <<"T", "e">>
K_tE == <<"t", "E">>
K_Upgrade == <<"U", "p", "g", "r", "a", "d", "e">>
K_Trailer == <<"T", "r", "a", "i", "l", "e", "r">>
K_XA == <<"X", "-", "A">>
K_XForwardedFor == <<"X", "-", "F", "o", "r", "w", "a", "r", "d", "e", "d", "-", "F", "o", "r">>
K_XForwardedHost == <<"X", "-", "F", "o", "r", "w", "a", "r", "d", "e", "d", "-", "H", "o", "s", "t">>
K_XForwardedProto == <<"X", "-", "F", "o", "r", "w", "a", "r", "d", "e", "d", "-", "P", "r", "o", "t", "o">>

\* The header keys of a request or response net/http has parsed (canonical),
\* and those of an envelope read from the control channel (as the peer wrote
\* them).
ParsedKeys == { K_Connection, K_KeepAlive, K_Te, K_Upgrade, K_Trailer, K_XA }
EnvelopeKeys ==
    { K_Connection, K_connection, K_CONNECTION, K_keepalive, K_Te, K_tE, K_XA }

\* HandlePublicHTTP: the Headers of the proxy_request envelope.
RequestEnvelopeHeaders(keys) ==
    /\ call = NoCall
    /\ call' = Called("proxy_request", keys, FALSE,
                   stripHopHeaders(keys) \cup
                       { K_XForwardedFor, K_XForwardedHost, K_XForwardedProto })
    /\ UNCHANGED <<sysVars, loopVars>>

\* forwardToLocal: the header of the local request, from the envelope's.
LocalRequestHeaders(keys) ==
    /\ call = NoCall
    /\ call' = Called("local request", keys, FALSE,
                   stripHopHeaders({ CanonicalMIMEHeaderKey(key) : key \in keys }))
    /\ UNCHANGED <<sysVars, loopVars>>

\* forwardToLocal: the Headers of the proxy_response envelope, from the local
\* response's.
ResponseEnvelopeHeaders(keys) ==
    /\ call = NoCall
    /\ call' = Called("proxy_response", keys, FALSE, stripHopHeaders(keys))
    /\ UNCHANGED <<sysVars, loopVars>>

\* writeResponse: the header of the public response, from the envelope's.
PublicResponseHeaders(keys) ==
    /\ call = NoCall
    /\ call' = Called("public response", keys, FALSE,
                   { CanonicalMIMEHeaderKey(key) : key \in keys })
    /\ UNCHANGED <<sysVars, loopVars>>

(***************************************************************************)
(* Bodies: sequences of bytes, and their base64 text as a sequence of the  *)
(* encoding's characters, each written as its 6-bit value; Pad is "=" and  *)
(* NotBase64 a character outside the alphabet.                             *)
(***************************************************************************)
Bytes == { 0, 77, 255 }
Pad == 64
NotBase64 == 65

Bodies == UNION { [1..n -> Bytes] : n \in 0..(maxBodySize + 2) }

\* The four characters of the 24 bits n.
Sextets(n) == << n \div 262144, (n \div 4096) % 64, (n \div 64) % 64, n % 64 >>

\* base64.StdEncoding.EncodeToString
RECURSIVE EncodeToString(_)
EncodeToString(b) ==
    IF b = <<>> THEN <<>>
    ELSE IF Len(b) = 1
    THEN SubSeq(Sextets(b[1] * 65536), 1, 2) \o <<Pad, Pad>>
    ELSE IF Len(b) = 2
    THEN SubSeq(Sextets(b[1] * 65536 + b[2] * 256), 1, 3) \o <<Pad>>
    ELSE Sextets(b[1] * 65536 + b[2] * 256 + b[3])
            \o EncodeToString(SubSeq(b, 4, Len(b)))

\* The bytes of one group of four characters; the padded characters count
\* as zero and their bytes are dropped.
GroupBytes(g) ==
    LET v(i) == IF g[i] = Pad THEN 0 ELSE g[i]
        n == v(1) * 262144 + v(2) * 4096 + v(3) * 64 + v(4)
        all == << n \div 65536, (n \div 256) % 256, n % 256 >>
    IN  IF g[3] = Pad THEN SubSeq(all, 1, 1)
        ELSE IF g[4] = Pad THEN SubSeq(all, 1, 2)
        ELSE all

\* base64.StdEncoding.DecodeString: [err, bytes]. The text is made of groups
\* of four characters of the alphabet, with "=" only at the end of the last.
RECURSIVE DecodeString(_)
DecodeString(text) ==
    IF text = <<>> THEN [err |-> FALSE, bytes |-> <<>>]
    ELSE IF Len(text) < 4 THEN [err |-> TRUE, bytes |-> <<>>]
    ELSE LET g == SubSeq(text, 1, 4)
             rest == SubSeq(text, 5, Len(text))
             last == rest = <<>>
             padOK == /\ g[1] < Pad /\ g[2] < Pad
                      /\ g[3] = Pad => (last /\ g[4] = Pad)
                      /\ g[4] = Pad => last
             after == DecodeString(rest)
         IN  IF (\E i \in 1..4 : g[i] = NotBase64) \/ ~padOK \/ after.err
             THEN [err |-> TRUE, bytes |-> <<>>]
             ELSE [err |-> FALSE, bytes |-> GroupBytes(g) \o after.bytes]

\* The first n bytes of the body: io.ReadAll(io.LimitReader(r.Body, n)).
LimitReader(body, n) == SubSeq(body, 1, IF Len(body) < n THEN Len(body) ELSE n)

\* HandlePublicHTTP: body, err := io.ReadAll(io.LimitReader(r.Body, maxBodySize))
ReadBody(body) == LimitReader(body, maxBodySize)

\* HandlePublicHTTP from the read of the body to the envelope: a failed read
\* is answered 400 and nothing is written; otherwise the envelope's Body is
\* the base64 text of what was read.
ReadRequestBody(body, fails) ==
    /\ call = NoCall
    /\ call' = IF fails
               THEN [fn |-> "request body", arg |-> body, err |-> TRUE,
                     status |-> 400, out |-> <<>>, again |-> NoResult]
               ELSE [fn |-> "request body", arg |-> body, err |-> FALSE,
                     status |-> 0, out |-> EncodeToString(ReadBody(body)),
                     again |-> NoResult]
    /\ UNCHANGED <<sysVars, loopVars>>

\* forwardToLocal: body, err := base64.StdEncoding.DecodeString(req.Body)
DecodeRequestBody ==
    /\ call.fn = "request body"
    /\ ~call.err
    /\ ~call.again.done
    /\ LET d == DecodeString(call.out)
       IN  call' = [call EXCEPT !.again =
                       [done |-> TRUE, err |-> d.err, out |-> d.bytes]]
    /\ UNCHANGED <<sysVars, loopVars>>

\* Base64 texts of up to four characters, well-formed or not, and the
\* statuses of a proxy_response envelope (0: the field is absent).
Texts == UNION { [1..n -> {0, 63, Pad, NotBase64}] : n \in 0..4 }
EnvelopeStatuses == { 0, 200, 404, 502 }

\* writeResponse: the status line is written before the body is decoded; a
\* body that does not decode is replaced by the text "decode response body
\* failed".
writeResponse(resp) ==
    LET d == DecodeString(resp.Body)
    IN  [fn |-> "writeResponse", arg |-> resp,
         status |-> ResponseStatus(resp),
         diagnostic |-> resp.Body # <<>> /\ d.err,
         out |-> IF resp.Body = <<>> THEN <<>> ELSE d.bytes]

\* HandlePublicHTTP: case resp := <-respCh: writeResponse(w, resp)
WriteResponse(status, text) ==
    /\ call = NoCall
    /\ call' = writeResponse([Status |-> status, Body |-> text])
    /\ UNCHANGED <<sysVars, loopVars>>

\* Config files with entries load skips: a hostname with a port, a blank
\* target, a hostname without a dot.
ConfigFiles ==
    { << Route(H_ab, T_x1), Route(H_AbPort, T_x1), Route(H_CdDot, T_y2) >>,
      << Route(H_cd, T_blank), Route(H_dDots, T_x1) >>,
      << Route(H_blank, T_x1) >>,
      << Route(H_ab, T_x1), Route(H_cd, T_y2) >> }

\* NewConfigStore on a config file written by hand.
LoadFile(file) ==
    /\ call = NoCall
    /\ call' = Called("load", file, FALSE, load(file))
    /\ UNCHANGED <<sysVars, loopVars>>

\* ConfigStore.ReplaceAll called with a list: the error of the first invalid
\* entry, returned before s.routes is touched, or the next map.
CallReplaceAll(payload) ==
    /\ call = NoCall
    /\ call' = Called("ReplaceAll", payload, ReplaceAllNext(payload).err,
                      IF ReplaceAllNext(payload).err THEN storeRoutes
                      ELSE ReplaceAllNext(payload).routes)
    /\ UNCHANGED <<sysVars, loopVars>>

\* NewConfigStore on the agent's config file: load reads what saveLocked
\* wrote, the snapshot of the saved routes sorted by hostname.
NewConfigStore ==
    /\ call' = Called("load", List(fileRoutes), FALSE, load(List(fileRoutes)))
    /\ UNCHANGED <<sysVars, loopVars>>

(***************************************************************************)
(* The gateway with arbitrary clients on its control channel.              *)
(***************************************************************************)
Session(c) ==
    \/ swapAgent(c)
    \/ ClosePrevious(c)
    \/ ReadError(c)
    \/ applyRoutesInsert(c)
    \/ SendResponse(c)
    \/ cleanupAgent(c)
    \/ cleanupRoutes(c)
    \/ CloseSelf(c)

HandlePublicHTTP(h, raws) ==
    \/ \E raw \in raws : LookupRoute(h, raw)
    \/ LookupSession(h)
    \/ ReadBodyError(h)
    \/ AddPending(h)
    \/ WriteError(h)
    \/ ReceiveResponse(h)
    \/ Timeout(h)
    \/ Return(h)
    \/ RemovePending(h)

\* Sessions that have been accepted and not yet swapped in are interchangeable:
\* they are accepted one at a time.
NoneAccepted == \A c \in Conns : hc[c] # "accepted"

\* nc connections, nr public requests with Host headers from raws, clients that
\* send the envelopes msgs and read every frame at once.
GatewayNext(nc, nr, raws, msgs) ==
    \/ \E t \in Tokens : nextConn <= nc /\ NoneAccepted /\ Upgrade(t)
    \/ \E c \in Conns : Session(c)
    \/ \E c \in Conns, m \in msgs : ClientSend(c, m)
    \/ \E c \in Conns : ClientClose(c)
    \/ \E h \in 1..nr : HandlePublicHTTP(h, raws) \/ WriteTaken(h)

Next == GatewayNext(SpecConns, SpecReqs, RawHosts, ClientMsgs)

\* Two connections, one public request, every envelope and Host header.
Spec == Init /\ [][Next]_vars

ReqMsgs ==
    { RegisterRoutes(RL_plain), ErrorEnv, BadFrame } \cup
    { ProxyResponse(id, 200) : id \in 0..MaxReq }

NextReq == GatewayNext(SpecConns, MaxReq, {H_AbPort, H_blank}, ReqMsgs)

\* Two connections, concurrent public requests for one host.
SpecReq == Init /\ [][NextReq]_vars

SwapMsgs == { RegisterRoutes(RL_plain), ProxyResponse(1, 200), ErrorEnv, BadFrame }

NextSwap == GatewayNext(MaxConn, SpecReqs, {H_cd}, SwapMsgs)

\* Three connections of one token.
SpecSwap == Init /\ [][NextSwap]_vars

Handler(h) == HandlePublicHTTP(h, {H_AbPort}) \/ Write(h)

\* The public requests arrive one after the other.
Turn(h) == IF h = 1 THEN TRUE ELSE hp[h - 1] = "done"

NextLive ==
    \/ \E t \in Tokens : nextConn <= SpecConns /\ NoneAccepted /\ Upgrade(t)
    \/ \E c \in Conns : Session(c)
    \/ \E c \in Conns, m \in SwapMsgs : ClientSend(c, m)
    \/ \E c \in Conns : ClientReceive(c)
    \/ \E c \in Conns : ClientClose(c)
    \/ \E h \in Reqs : Turn(h) /\ Handler(h)

\* The gateway's goroutines are scheduled fairly; the peer is not obliged to
\* read its socket, to answer or to close.
SpecLive ==
    /\ Init /\ [][NextLive]_vars
    /\ \A h \in Reqs : WF_vars(Turn(h) /\ Handler(h))
    /\ \A c \in Conns : WF_vars(Session(c))

NextAgent ==
    \/ Dial
    \/ ConnectList
    \/ ConnectWrite
    \/ AgentReadRequest
    \/ AgentReadError
    \/ AgentClose
    \/ \E id \in Ids : handleProxyRequest(id)
    \/ ChannelLost
    \/ \E c \in Conns : Session(c) \/ ReadFrame(c)
    \/ \E h \in 1..SpecReqs : HandlePublicHTTP(h, {H_AbPort}) \/ Write(h)

\* The gateway with the agent of this repository, its route sync disabled.
SpecAgent == Init /\ [][NextAgent]_vars

NextSync ==
    \/ NextAgent
    \/ \E saved \in BOOLEAN : ReplaceAll(saved)
    \/ SyncList
    \/ SyncWrite

\* The gateway with the agent of this repository and its route sync.
SpecSync == Init /\ [][NextSync]_vars

\* The public request h arrives after the one before it was answered.
Later(h) == IF h = 1 THEN TRUE ELSE hp[h - 1] \in {"ret", "defer", "done"}

NextLater ==
    \/ \E t \in Tokens : nextConn <= SpecConns /\ NoneAccepted /\ Upgrade(t)
    \/ \E c \in Conns : Session(c)
    \/ \E c \in Conns, m \in ReqMsgs : ClientSend(c, m)
    \/ \E c \in Conns : ClientClose(c)
    \/ \E h \in Reqs :
          Later(h) /\ (HandlePublicHTTP(h, {H_AbPort, H_cd}) \/ WriteTaken(h))

\* Two connections; a public request and a second one that arrives when the
\* first has been answered, for either host.
SpecLater == Init /\ [][NextLater]_vars

TenantMsgs ==
    { RegisterRoutes(RL_plain), RegisterRoutes(RL_odd), RegisterRoutes(RL_one),
      ProxyResponse(1, 200), ErrorEnv, BadFrame }

NextTenants ==
    \/ \E t \in Tenants : nextConn <= SpecConns /\ NoneAccepted /\ Upgrade(t)
    \/ \E c \in Conns : Session(c)
    \/ \E c \in Conns, m \in TenantMsgs : ClientSend(c, m)
    \/ \E c \in Conns : ClientClose(c)
    \/ \E h \in 1..SpecReqs : HandlePublicHTTP(h, {H_AbPort, H_cd}) \/ WriteTaken(h)

\* Two connections, each of either tenant, and one public request.
SpecTenants == Init /\ [][NextTenants]_vars

\* The connections and public requests that have arrived.
Arrivals == (nextConn - 1) + Cardinality({h \in Reqs : hp[h] # "idle"})

\* The public request h may arrive.
Arrives(h) == hp[h] = "idle" => Arrivals < MaxArrivals

\* The tenant of the n-th connection: t1 connects after t2 and connects again.
TenantOf(n) == IF n = 1 THEN "t2" ELSE "t1"

ContainMsgs == SwapMsgs \cup { RegisterRoutes(RL_one) }

NextContain ==
    \/ /\ nextConn <= MaxConn /\ Arrivals < MaxArrivals /\ NoneAccepted
       /\ Upgrade(TenantOf(nextConn))
    \/ \E c \in Conns : Session(c)
    \/ \E c \in Conns, m \in ContainMsgs : ClientSend(c, m)
    \/ \E c \in Conns : ClientClose(c)
    \/ \E h \in Reqs :
          Arrives(h) /\ Later(h) /\ (HandlePublicHTTP(h, {H_cd}) \/ WriteTaken(h))

\* Two tenants: up to three connections and two public requests, MaxArrivals
\* arrivals in all.
SpecContain == Init /\ [][NextContain]_vars

ProxyTargets == { <<>>, <<"x", ":", "1">> }
ProxyBodies == { B_padded, B_bad }

NextUpstream ==
    \/ Dial
    \/ ConnectList
    \/ ConnectWrite
    \/ AgentReadRequest
    \/ AgentReadError
    \/ AgentClose
    \/ ChannelLost
    \/ \E target \in ProxyTargets, body \in ProxyBodies : ServerSend(target, body)
    \/ \E req \in tasks, out \in LocalOutcomes : ForwardRequest(req, out)
    \/ \E task \in tasks : WriteProxyResponse(task)
    \/ \E c \in Conns :
          \/ swapAgent(c)
          \/ ClosePrevious(c)
          \/ ReadError(c)
          \/ ReadFrame(c)
          \/ applyRoutesInsert(c)
          \/ cleanupAgent(c)
          \/ cleanupRoutes(c)
          \/ CloseSelf(c)

\* The agent of this repository, a server that sends it any proxy_request, and
\* a local service that fails or replies.
SpecUpstream == Init /\ [][NextUpstream]_vars

NextWrite ==
    \/ Dial
    \/ ConnectList
    \/ ConnectWrite
    \/ AgentReadRequest
    \/ AgentReadError
    \/ AgentClose
    \/ ChannelLost
    \/ ServerSend(T_x1, B_padded)
    \/ \E req \in tasks : ForwardRequest(req, [kind |-> "reply", code |-> 200])
    \/ \E task \in tasks : getConn(task) \/ LockWrite(task) \/ UnlockWrite(task)
    \/ \E c \in Conns :
          \/ swapAgent(c)
          \/ ClosePrevious(c)
          \/ ReadError(c)
          \/ ReadFrame(c)
          \/ applyRoutesInsert(c)
          \/ cleanupAgent(c)
          \/ cleanupRoutes(c)
          \/ CloseSelf(c)

\* The agent of this repository and a server that sends it proxy_requests;
\* every handleProxyRequest goroutine is followed through writeEnvelope.
SpecWrite == Init /\ [][NextWrite]_vars

\* The route sync URL of an agent in managed mode.
ManagedURL == "http://control/routes"

AdminHosts == { H_ab, H_CdDot, H_AbPort }
AdminTargets == { T_x1, T_blank }

NextManaged ==
    \/ Dial
    \/ ConnectList
    \/ ConnectWrite
    \/ AgentReadError
    \/ AgentClose
    \/ ChannelLost
    \/ \E c \in Conns :
          \/ swapAgent(c)
          \/ ClosePrevious(c)
          \/ ReadError(c)
          \/ ReadFrame(c)
          \/ applyRoutesInsert(c)
          \/ cleanupAgent(c)
          \/ cleanupRoutes(c)
          \/ CloseSelf(c)
    \/ \E saved \in BOOLEAN : ReplaceAll(saved)
    \/ SyncList
    \/ SyncWrite
    \/ \E answer \in FailedPolls : SyncFails(answer)
    \/ SyncSkip
    \/ handleStatus(ManagedURL)
    \/ handleRoutesGet
    \/ \E hostname \in AdminHosts, target \in AdminTargets, saved \in BOOLEAN :
          handleRoutesPost(ManagedURL, hostname, target, saved)
    \/ \E hostname \in AdminHosts, saved \in BOOLEAN :
          handleRouteByHost(ManagedURL, hostname, saved)

\* The agent of this repository in managed mode, with its route sync, whose
\* polls may fail, and its admin API, and the gateway's reader of its frames.
SpecManaged == Init /\ [][NextManaged]_vars

NextHost == GatewayNext(SpecConns, SpecReqs, {H_AbPort, H_CdDot}, ReqMsgs)

\* Two connections, one public request whose Host has capitals and a port, or
\* capitals and a trailing dot.
SpecHost == Init /\ [][NextHost]_vars

MalformedMsgs ==
    { RegisterRoutes(RL_malformed), RegisterRoutes(RL_odd), ProxyResponse(1, 200),
      ErrorEnv, BadFrame }

NextMalformed == GatewayNext(SpecConns, SpecReqs, {H_AbPort, H_CdDot}, MalformedMsgs)

\* Two connections whose clients publish malformed entries, one public
\* request.
SpecMalformed == Init /\ [][NextMalformed]_vars

NextHeaders ==
    \/ \E keys \in SUBSET ParsedKeys : RequestEnvelopeHeaders(keys)
    \/ \E keys \in SUBSET EnvelopeKeys : LocalRequestHeaders(keys)
    \/ \E keys \in SUBSET ParsedKeys : ResponseEnvelopeHeaders(keys)
    \/ \E keys \in SUBSET EnvelopeKeys : PublicResponseHeaders(keys)

\* The headers written on each of the four legs, for every set of keys read.
SpecHeaders == Init /\ [][NextHeaders]_vars

NextBody ==
    \/ \E body \in Bodies, fails \in BOOLEAN : ReadRequestBody(body, fails)
    \/ DecodeRequestBody

\* The body of a public request from the client to the agent's local call.
SpecBody == Init /\ [][NextBody]_vars

NextResponse ==
    \E status \in EnvelopeStatuses, text \in Texts : WriteResponse(status, text)

\* What writeResponse sends to the public client for a proxy_response.
SpecResponse == Init /\ [][NextResponse]_vars

ConnectLoop ==
    \/ LoopSelect
    \/ DialFails
    \/ DialSucceeds
    \/ WaitDone
    \/ WaitTimer
    \/ Double

RouteSyncLoop ==
    \/ SyncReturns
    \/ SyncDone
    \/ SyncTick

NextRun ==
    \/ Cancel
    \/ ReadFails
    \/ ConnectLoop
    \/ RouteSyncLoop

\* Service.Run of a managed agent, up to MaxDials calls of connectOnce.
SpecRun == Init /\ [][NextRun]_vars

\* The agent's goroutines are scheduled and its timers fire, and a select
\* whose ctx.Done case is ready again and again takes it; the process is not
\* obliged to receive a signal, nor the gateway to close the connection.
SpecRunLive ==
    /\ Init /\ [][NextRun]_vars
    /\ WF_vars(ConnectLoop)
    /\ WF_vars(RouteSyncLoop)
    /\ SF_vars(SyncDone)
    /\ SF_vars(WaitDone)

StoreHosts == { H_ab, H_CdDot, H_CdDots, H_blank }
StoreTargets == { T_x1, T_y2, T_blank }

NextStore ==
    \/ \E hostname \in StoreHosts, target \in StoreTargets, saved \in BOOLEAN :
          handleRoutesPost("", hostname, target, saved)
    \/ \E hostname \in StoreHosts \cup {<<>>}, saved \in BOOLEAN :
          handleRouteByHost("", hostname, saved)
    \/ AdminList
    \/ AdminWrite
    \/ NewConfigStore

\* The ConfigStore of an agent whose routes are edited through its admin API,
\* and fresh stores loading its file.
SpecStore == Init /\ [][NextStore]_vars

ValidHosts == { H_ab, H_dDots, H_AbPort }
ValidTargets == { T_x1, T_blank }

NextValid ==
    \/ \E hostname \in ValidHosts, target \in ValidTargets :
          handleRoutesPost("", hostname, target, TRUE)
    \/ \E hostname \in ValidHosts \cup {<<>>} : handleRouteByHost("", hostname, TRUE)
    \/ AdminList
    \/ AdminWrite
    \/ \E file \in ConfigFiles : LoadFile(file)
    \/ \E payload \in ConfigFiles : CallReplaceAll(payload)

\* The ConfigStore of an agent whose file can always be written: Upsert and
\* Delete through the admin API, and load and ReplaceAll on lists with invalid
\* entries.
SpecValid == Init /\ [][NextValid]_vars

NextNormalize ==
    \/ \E hostname \in Strings(HostChars) : CallNormalizeHostname(hostname)
    \/ \E target \in Strings(TargetChars) : CallNormalizeTarget(target)
    \/ CallAgain

\* NormalizeHostname and NormalizeTarget on every short string, and on their
\* own results.
SpecNormalize == Init /\ [][NextNormalize]_vars

---------------------------------------------------------------------------
\* Properties.

\* C1 - as stated: every binding's owner token has a session in the registry
\* (a binding never outlives, or exists without, its token's session).
C1_BindingHasSession ==
    \A h \in Hosts :
        routes[h] # NoBinding => agents[routes[h].Token] # NoSess

\* Every session has ended and a binding is left in the table.
C1_Witness ==
    /\ \A c \in Conns : hc[c] \in {"none", "done"}
    /\ \E h \in Hosts : routes[h] # NoBinding

\* The well-formed entries of a payload: non-empty normalized hostname and
\* non-empty trimmed target.
WellFormed(r) ==
    normalizeHost(r.Hostname) # <<>> /\ TrimSpace(r.Target) # <<>>

LastWellFormed(rl, host) ==
    LET I == { i \in 1..Len(rl) :
                 WellFormed(rl[i]) /\ normalizeHost(rl[i].Hostname) = host }
    IN  IF I = {} THEN 0 ELSE CHOOSE i \in I : \A j \in I : j <= i

PublishedBy(rl) ==
    { <<host, TrimSpace(rl[LastWellFormed(rl, host)].Target)>> :
        host \in { g \in Hosts : LastWellFormed(rl, g) # 0 } }

OwnedPairs(rt, token) ==
    { <<host, rt[host].Target>> : host \in BindingsOf(rt, token) }

AppliesRoutes(c) == hc[c] = "insert" /\ hc'[c] = "read"

\* C2 - as amended: when register_routes(token, R) has been applied, the
\* bindings owned by token are exactly the well-formed entries of R (normalized
\* hostname and trimmed target both non-empty, the last entry of a hostname
\* winning, the target stored trimmed), and no public lookup reads the table
\* between the removal and the insertion.
C2_AtomicReplacement ==
    [][ /\ \A c \in Conns :
              AppliesRoutes(c) =>
                  OwnedPairs(routes', connTok[c]) = PublishedBy(env[c].Routes)
        /\ \A h \in Reqs :
              (hp[h] = "idle" /\ hp'[h] \in {"agents", "ret"} /\ hHost'[h] # <<>>)
                  => \A c \in Conns : hc[c] # "insert"
      ]_vars

\* A session has applied a payload holding malformed and repeated entries.
C2_Witness ==
    \E c \in Conns :
        /\ applied[c] /\ hc[c] = "read"
        /\ routes[H_ab] = [Token |-> connTok[c], Target |-> <<"y", ":", "2">>, by |-> c]
        /\ routes[H_cd] = NoBinding

\* C2 - as stated: after register_routes(token, R) the bindings owned by token
\* are exactly the routes of R, hostnames normalized.
C2_ExactlyPayload ==
    [][ \A c \in Conns :
            AppliesRoutes(c) =>
                OwnedPairs(routes', connTok[c]) =
                    { <<normalizeHost(env[c].Routes[i].Hostname), env[c].Routes[i].Target>> :
                        i \in 1..Len(env[c].Routes) }
      ]_vars

\* The handler has written its proxy_request and left the select.
Waited(h) == hp[h] = "defer" /\ hWrote[h]

GotResponse(h) ==
    /\ hGot[h] # NoEnv
    /\ hGot[h].RequestID = hId[h]
    /\ hStatus[h] = ResponseStatus(hGot[h])
    /\ respCh[h] = <<>>

TimedOut(h) == hGot[h] = NoEnv /\ hStatus[h] = 504

\* C3 - every handler that waited on its slot left the wait with exactly one of
\* two outcomes: one proxy_response carrying its request id was delivered to it
\* and nothing more is queued for it, or it timed out with 504 having received
\* nothing; never both and never neither (a teardown cancels no waiter).
C3_SlotCompleteness ==
    \A h \in Reqs : Waited(h) => (GotResponse(h) # TimedOut(h))

\* A waiter timed out after its session was torn down.
C3_Witness ==
    \E h \in Reqs :
        Waited(h) /\ TimedOut(h) /\ hSess[h] # NoSess /\ hc[hSess[h]] = "done"

Registered(t) == agents[t] # NoSess

\* The connection of p was closed by the session that replaced it.
ClosedByReplacement(p) ==
    \E n \in Conns : prev[n] = p /\ hc[n] \notin {"none", "accepted", "swapped"}

Superseded(n) == \E m \in Conns : prev[m] = n

\* C4 - as amended: the registry holds at most one session per token and it is a
\* session of that token; while n is replacing p the registry no longer points
\* at p, and it points at n unless a later session has already replaced n (the
\* entry may then be absent); the registry never points at a session whose
\* connection was closed by its replacement.
C4_SingleSessionPerToken ==
    /\ \A t \in Tokens : Registered(t) => connTok[agents[t]] = t
    /\ \A n \in Conns :
          hc[n] = "swapped" =>
              /\ agents[connTok[n]] # prev[n]
              /\ agents[connTok[n]] = n \/ Superseded(n)
    /\ \A p \in Conns :
          ClosedByReplacement(p) => agents[connTok[p]] # p

\* A replacement has closed the predecessor and the registry points at the
\* replacing session.
C4_Witness ==
    \E n \in Conns :
        /\ hc[n] = "read" /\ prev[n] # NoSess
        /\ gwClosed[prev[n]]
        /\ agents[connTok[n]] = n

\* C4 - as stated: while a replacement is under way the registry has an entry
\* for the token, and it never points at a predecessor closed by the
\* replacement.
C4_NeverNoEntry ==
    /\ \A n \in Conns : hc[n] = "swapped" => Registered(connTok[n])
    /\ \A p \in Conns : ClosedByReplacement(p) => agents[connTok[p]] # p

InFlight(h) == hp[h] \in {"write", "wait", "defer"}

\* C5 - a proxy_response is delivered only to the waiter that registered its
\* request id, and only when it arrived on the session that waiter registered
\* it on; the ids of the requests in flight are distinct across sessions, so an
\* id arriving on another session finds no slot and is dropped.
C5_NoCrossDelivery ==
    /\ [](\A h \in Reqs :
            /\ hGot[h] # NoEnv =>
                  hGot[h].RequestID = hId[h] /\ hGot[h].via = hSess[h]
            /\ (InFlight(h) /\ respCh[h] # <<>>) =>
                  Head(respCh[h]).RequestID = hId[h] /\ Head(respCh[h]).via = hSess[h]
            /\ \A g \in Reqs :
                  (g # h /\ InFlight(g) /\ InFlight(h)) => hId[g] # hId[h])
    /\ [][ \A c \in Conns :
              (hc[c] = "read" /\ hc'[c] = "send") =>
                  /\ pending[c][env'[c].RequestID] = env'[c].ch
                  /\ pending'[c][env'[c].RequestID] = 0
                  /\ hSess[env'[c].ch] = c
                  /\ hId[env'[c].ch] = env'[c].RequestID
         ]_vars

\* A request registered on one session waits while a later session of the same
\* token is reading and one request got its response.
C5_Witness ==
    \E h \in Reqs, c \in Conns :
        /\ hp[h] = "wait" /\ hSess[h] # c
        /\ hc[c] = "read" /\ ~peerClosed[c] /\ connTok[c] = connTok[hSess[h]]
        /\ prev[c] = hSess[h]
        /\ \E g \in Reqs : g # h /\ hGot[g] # NoEnv

Answered(h) == hp[h] \in {"ret", "defer"}

NoSlot(h) == \A c \in Conns, i \in Ids : pending[c][i] # h

\* C6 - an answered request has the status of the first failing check: empty
\* host 400; no binding 404; binding without session 503; write failed 502;
\* no response within the timeout 504; and with 400, 404 or 503 from the
\* gateway no slot was registered, no request id allocated and nothing written.
C6_ErrorPrecedence ==
    \A h \in Reqs :
        Answered(h) =>
            /\ hHost[h] = <<>> => hStatus[h] = 400
            /\ (hHost[h] # <<>> /\ hBinding[h] = NoBinding) => hStatus[h] = 404
            /\ (hBinding[h] # NoBinding /\ hSess[h] = NoSess) => hStatus[h] = 503
            /\ (hp[h] = "defer" /\ ~hWrote[h]) => hStatus[h] = 502
            /\ (hWrote[h] /\ hGot[h] = NoEnv) => hStatus[h] = 504
            /\ (hStatus[h] \in {400, 404, 503} /\ hGot[h] = NoEnv) =>
                  hId[h] = 0 /\ NoSlot(h) /\ ~hWrote[h] /\ hp[h] = "ret"

\* A request for a bound host was answered 503 before any id was allocated.
C6_Witness ==
    \E h \in Reqs :
        /\ hp[h] = "ret" /\ hStatus[h] = 503
        /\ hBinding[h] # NoBinding /\ requestSeq = 0

\* C7 - as stated: every handler that has registered its slot eventually
\* returns, having observed the agent's response or the timeout; no handler
\* waits forever.
C7_HandlerReturns ==
    \A h \in Reqs : InFlight(h) ~> (hp[h] = "done")

\* A handler that registered its slot is in session.Write, the connection is
\* open and the socket's buffer is full.
C7_Witness ==
    \E h \in Reqs :
        /\ hp[h] = "write" /\ ~Broken(hSess[h])
        /\ Len(outbound[hSess[h]]) = SockBuf
        /\ pending[hSess[h]][hId[h]] = h

StorePairs(store) == { <<h, store[h]>> : h \in { g \in Hosts : store[g] # NoTarget } }

\* The agent reads on a connection whose session is the registered one, every
\* frame it wrote has been processed and no other session is running.
Settled ==
    /\ aConn # NoSess /\ cl = "read" /\ ~Broken(aConn)
    /\ agents[AgentToken] = aConn
    /\ hc[aConn] = "read" /\ inbound[aConn] = <<>>
    /\ \A c \in Conns \ {aConn} : hc[c] \in {"none", "done"}

\* C8 - as stated: once the agent has re-dialled after a lost control channel
\* and its register_routes has been applied, the gateway's bindings for the
\* agent's token equal the agent's local route set.
C8_ReconnectRestoresBindings ==
    (Settled /\ aConn > 1 /\ applied[aConn])
        => OwnedPairs(routes, AgentToken) = StorePairs(storeRoutes)

\* C9 - as stated: with the endpoint returning CtlRoutes and the agent staying
\* connected, after a poll that ended without an error and with nothing left
\* in progress, the agent's in-memory set, its file and the gateway's bindings
\* for its token all equal CtlRoutes.
C9_RouteSyncConverges ==
    (Settled /\ nextConn = 2 /\ applied[aConn] /\ sl = "idle" /\ polled)
        => /\ storeRoutes = CtlNext.routes
           /\ fileRoutes = CtlNext.routes
           /\ OwnedPairs(routes, AgentToken) = StorePairs(CtlNext.routes)

\* n has replaced a session and has not yet applied a register_routes.
FreshReplacement(n) == prev[n] # NoSess /\ ~applied[n]

RoutedThrough(h) == hp[h] = "agents" /\ hp'[h] = "body"

\* A request is forwarded through the new session along a binding that the
\* replaced session published, before the new session published anything.
C10_Witness ==
    \E h \in Reqs :
        /\ hp[h] = "wait" /\ hSess[h] # NoSess
        /\ FreshReplacement(hSess[h])
        /\ hBinding[h].by = prev[hSess[h]]
        /\ gwClosed[prev[hSess[h]]]

\* C10 - as stated: when the new session's first register_routes is applied
\* the bindings published by the previous session have already been removed,
\* and until then no request is routed through such a binding.
C10_PreviousBindingsRemoved ==
    /\ [][ \A n \in Conns :
              (FreshReplacement(n) /\ hc[n] = "read" /\ hc'[n] = "insert") =>
                  \A h \in Hosts : routes[h].by # prev[n]
         ]_vars
    /\ [][ \A h \in Reqs :
              RoutedThrough(h) =>
                  ~(FreshReplacement(hSess'[h]) /\ hBinding[h].by = prev[hSess'[h]])
         ]_vars

CleanupRan(c) == hc[c] \in {"cleanup", "purge"} /\ hc'[c] = "close"

\* C11 - as stated: when the reader of a session has returned and cleanupAgent
\* has run, no slot is left in the session's pending map: the teardown failed
\* every outstanding slot, releasing its waiter.
C11_TeardownFailsPending ==
    [][ \A c \in Conns :
            CleanupRan(c) => \A i \in Ids : pending'[c][i] = 0
      ]_vars

\* The teardown of a session is complete and a handler still waits on the slot
\* it registered on it, with nothing delivered.
C11_Witness ==
    \E h \in Reqs :
        /\ hp[h] = "wait" /\ hSess[h] # NoSess /\ hc[hSess[h]] = "done"
        /\ pending[hSess[h]][hId[h]] = h
        /\ respCh[h] = <<>>

\* The handler has registered its request and has not answered it.
Unfinished(h) == hp[h] \in {"write", "wait"}

\* The reader popped the slot of h and holds, or has sent, its response.
Popped(h) ==
    \/ respCh[h] # <<>>
    \/ \E c \in Conns : hc[c] = "send" /\ env[c].ch = h

\* C12 - as amended: a request id is in the pending map of a session only if
\* its handler registered it there and has not returned; an unfinished request
\* has its slot in the map unless the reader has popped it to deliver the
\* response; a handler that has returned, or never registered, has no slot.
C12_NoSlotOfFinished ==
    /\ \A c \in Conns, i \in Ids :
          pending[c][i] # 0 =>
              /\ InFlight(pending[c][i])
              /\ hSess[pending[c][i]] = c
              /\ hId[pending[c][i]] = i
    /\ \A h \in Reqs :
          /\ Unfinished(h) => (pending[hSess[h]][hId[h]] = h \/ Popped(h))
          /\ ~InFlight(h) => NoSlot(h)

\* A handler that registered a request has returned, and a session, still
\* open, has an empty pending map.
C12_Witness ==
    \E h \in Reqs, c \in Conns :
        /\ hp[h] = "done" /\ requestSeq > 0
        /\ hc[c] = "read" /\ ~Broken(c)
        /\ \A i \in Ids : pending[c][i] = 0

\* C12 - as stated: a request id is in the pending map if and only if its
\* handler has registered the request and has not yet observed a terminal
\* outcome (the slot may stay until the deferred removal has run).
C12_SlotIffUnfinished ==
    /\ \A c \in Conns, i \in Ids :
          pending[c][i] # 0 =>
              InFlight(pending[c][i]) /\ hSess[pending[c][i]] = c
    /\ \A h \in Reqs :
          Unfinished(h) => pending[hSess[h]][hId[h]] = h

Allocates(h) == hId[h] = 0 /\ hId'[h] # 0

\* C13 - the request id a handler is given is greater than every id handed out
\* before it (the counter never goes back and every id is above the counter's
\* value before the allocation), whichever session the request is routed to;
\* so the ids, and their decimal strings, of requests in flight differ, and no
\* id has a slot in two sessions or belongs to two live slots of one session.
C13_UniqueRequestIDs ==
    /\ [][ /\ requestSeq' >= requestSeq
           /\ \A h \in Reqs :
                 Allocates(h) =>
                     /\ hId'[h] > requestSeq /\ hId'[h] <= requestSeq'
                     /\ \A g \in Reqs \ {h} : hId'[g] < hId'[h]
         ]_vars
    /\ [](\A g, h \in Reqs :
            /\ hId[h] <= requestSeq
            /\ (g # h /\ hId[g] # 0 /\ hId[h] # 0) =>
                  FormatUint(hId[g]) # FormatUint(hId[h])
            /\ \A c, d \in Conns, i \in Ids :
                  (pending[c][i] = g /\ pending[d][i] = h /\ g # 0 /\ h # 0) =>
                      (c = d /\ g = h))

\* Two requests are in flight at the same time on different sessions, the
\* later one with the greater id.
C13_Witness ==
    \E g, h \in Reqs :
        /\ hp[g] = "wait" /\ hp[h] = "wait"
        /\ hSess[g] # hSess[h]
        /\ pending[hSess[g]][hId[g]] = g /\ pending[hSess[h]][hId[h]] = h
        /\ hId[g] = 1 /\ hId[h] = 2

TimesOut(h) == hp[h] = "wait" /\ hp'[h] = "defer" /\ hStatus'[h] = 504

ReturnsAfterTimeout(h) == hp[h] = "defer" /\ hStatus[h] = 504 /\ hp'[h] = "done"

\* C14 - the step in which a request times out changes nothing of the
\* registry, the routing table, the sessions, their connections or any pending
\* map, and the return that follows removes the request's own slot and nothing
\* else: every other slot, the registry and the routing table are as before.
C14_TimeoutLeavesSession ==
    [][ \A h \in Reqs :
          /\ TimesOut(h) =>
                /\ agents' = agents /\ routes' = routes /\ pending' = pending
                /\ hc' = hc /\ gwClosed' = gwClosed /\ peerClosed' = peerClosed
                /\ respCh' = respCh
          /\ ReturnsAfterTimeout(h) =>
                /\ agents' = agents /\ routes' = routes
                /\ hc' = hc /\ gwClosed' = gwClosed /\ peerClosed' = peerClosed
                /\ pending'[hSess[h]][hId[h]] = 0
                /\ \A c \in Conns, i \in Ids :
                      <<c, i>> # <<hSess[h], hId[h]>> => pending'[c][i] = pending[c][i]
      ]_vars

\* The first request timed out; the second, which arrived after the 504, went
\* through the same session, still registered and open, on the other binding
\* and got the agent's response.
C14_Witness ==
    /\ hp[1] = "defer" /\ hStatus[1] = 504 /\ hWrote[1]
    /\ hp[2] = "defer" /\ hStatus[2] = 200
    /\ hGot[2].RequestID = hId[2] /\ hGot[2].via = hSess[1]
    /\ hSess[2] = hSess[1] /\ hHost[2] # hHost[1]
    /\ agents[connTok[hSess[1]]] = hSess[1] /\ ~Broken(hSess[1])

DeletesOwn(c) == hc[c] = "read" /\ hc'[c] = "insert"

PublishedTarget(rl, host) == TrimSpace(rl[LastWellFormed(rl, host)].Target)

\* C15 - as amended: a register_routes of token B removes no binding of
\* another token in its delete loop, and its insert loop binds to B, with the
\* trimmed target of the last such entry, exactly the hostnames for which the
\* payload has a well-formed entry, whoever owned them; every other binding,
\* of any token, is left as it was. So B takes h from A only through a
\* well-formed entry, A keeps its other bindings, and a later register_routes
\* of A without h leaves B's binding for h.
C15_LastPublicationWins ==
    [][ \A c \in Conns :
          /\ DeletesOwn(c) =>
                \A h \in Hosts :
                    routes[h].Token # connTok[c] => routes'[h] = routes[h]
          /\ AppliesRoutes(c) =>
                \A h \in Hosts :
                    IF LastWellFormed(env[c].Routes, h) # 0
                    THEN /\ routes'[h].Token = connTok[c]
                         /\ routes'[h].Target = PublishedTarget(env[c].Routes, h)
                    ELSE routes'[h] = routes[h]
      ]_vars

\* A request found a.b bound to t1; a.b is now bound to t2, and t1, applying a
\* later payload that leaves a.b out, has run its delete loop.
C15_Witness ==
    \E c, d \in Conns :
        /\ connTok[c] = "t1" /\ connTok[d] = "t2"
        /\ hHost[1] = H_ab /\ hBinding[1].Token = "t1"
        /\ routes[H_ab].Token = "t2" /\ routes[H_ab].by = d
        /\ hc[c] = "insert" /\ applied[c] /\ env[c].Routes = RL_one

\* C15 - as stated: when a register_routes of token B includes a hostname h
\* that another token owns, h is afterwards bound to B with the target B gave.
C15_IncludedHostTaken ==
    [][ \A c \in Conns :
          AppliesRoutes(c) =>
              \A h \in Hosts, i \in 1..Len(env[c].Routes) :
                  ( /\ normalizeHost(env[c].Routes[i].Hostname) = h
                    /\ routes[h].Token \notin {NoTok, connTok[c]} )
                  => /\ routes'[h].Token = connTok[c]
                     /\ \E j \in 1..Len(env[c].Routes) :
                           /\ normalizeHost(env[c].Routes[j].Hostname) = h
                           /\ routes'[h].Target = env[c].Routes[j].Target
      ]_vars

\* A step of the teardown of session c, or of the replacement c carries out.
TeardownOrReplace(c) ==
    \/ hc[c] = "read" /\ hc'[c] = "cleanup"
    \/ hc[c] \in {"accepted", "swapped", "cleanup", "purge", "close"} /\ hc'[c] # hc[c]

FailsOrTimesOut(h) ==
    \/ hp[h] \in {"write", "wait"} /\ hp'[h] = "defer" /\ hStatus'[h] \in {502, 504}
    \/ hp[h] = "defer" /\ hStatus[h] \in {502, 504} /\ hp'[h] = "done"

\* C16 - every step of the teardown of a session of token t (after a read
\* error, a close or an undecodable frame) and of its replacement leaves the
\* registry entry, the bindings, the sessions and the pending slots of every
\* other token as they were; and the steps in which a request fails (502) or
\* times out (504) and then returns leave every other request, its slot and
\* its response channel as they were.
C16_Containment ==
    [][ /\ \A c \in Conns :
              TeardownOrReplace(c) =>
                  \A u \in Tenants \ {connTok[c]} :
                      /\ agents'[u] = agents[u]
                      /\ \A h \in Hosts :
                            (routes[h].Token = u \/ routes'[h].Token = u)
                                => routes'[h] = routes[h]
                      /\ \A d \in Conns :
                            connTok[d] = u =>
                                /\ pending'[d] = pending[d]
                                /\ hc'[d] = hc[d] /\ gwClosed'[d] = gwClosed[d]
        /\ \A h \in Reqs :
              FailsOrTimesOut(h) =>
                  /\ hc' = hc /\ gwClosed' = gwClosed /\ agents' = agents
                  /\ \A g \in Reqs \ {h} :
                        /\ hp'[g] = hp[g] /\ hSess'[g] = hSess[g] /\ hId'[g] = hId[g]
                        /\ respCh'[g] = respCh[g] /\ hGot'[g] = hGot[g]
                        /\ hStatus'[g] = hStatus[g]
                        /\ InFlight(g) =>
                              pending'[hSess[g]][hId[g]] = pending[hSess[g]][hId[g]]
      ]_vars

\* The session of t1 was replaced and torn down while the session of t2 stays
\* registered and open, with its binding and the slot of a waiting request.
C16_Witness ==
    \E p, n, d \in Conns, h \in Reqs :
        /\ connTok[p] = "t1" /\ prev[n] = p /\ hc[p] = "done" /\ hc[n] = "read"
        /\ connTok[d] = "t2" /\ agents["t2"] = d /\ ~Broken(d) /\ hc[d] = "read"
        /\ routes[H_cd].Token = "t2"
        /\ hp[h] = "wait" /\ hSess[h] = d /\ pending[d][hId[h]] = h

\* The request is one forwardToLocal passes on to the local service.
Forwardable(req) == req.Target # <<>> /\ Base64Valid(req.Body)

ForwardedTasks == { task \in tasks : Forwarded(task) }

\* A step of a handleProxyRequest goroutine.
HandlerStep == tasks' # tasks /\ outbound' = outbound

RequestOf(task) == IF Forwarded(task) THEN task.req ELSE task

\* How far the request with this id has come: 1 in a socket, 2 read by the
\* agent, 3 forwarded, 0 not sent or no longer with the agent.
Stage(id) ==
    IF \E task \in tasks : Forwarded(task) /\ task.req.RequestID = id THEN 3
    ELSE IF \E task \in tasks : RequestOf(task).RequestID = id THEN 2
    ELSE IF \E c \in Conns : \E i \in 1..Len(outbound[c]) :
                outbound[c][i].RequestID = id THEN 1
    ELSE 0

\* The agent's handler wrote a response frame on the connection c.
WroteResponse(c) ==
    /\ Len(inbound'[c]) = Len(inbound[c]) + 1
    /\ inbound'[c][Len(inbound'[c])].Type = "proxy_response"

\* C18 - every response the agent has built is a proxy_response with the
\* request's id and the status of the path taken: 502 for a missing target,
\* 400 for a body that is not base64, 502 for a failed local call, the local
\* status otherwise, never 0; a request is handled by one goroutine; every
\* response frame is written by the goroutine that forwarded the request, in
\* the step in which it ends, and a request that has left the agent does not
\* come back, so that no request is answered twice.
C18_OneResponsePerRequest ==
    /\ [](/\ \A task \in ForwardedTasks :
                /\ task.resp.Type = "proxy_response"
                /\ task.resp.RequestID = task.req.RequestID
                /\ task.resp.Status # 0
                /\ task.resp.Status =
                      IF task.req.Target = <<>> THEN 502
                      ELSE IF ~Base64Valid(task.req.Body) THEN 400
                      ELSE IF task.local.kind # "reply" THEN 502
                      ELSE task.local.code
          /\ \A a, b \in tasks :
                RequestOf(a).RequestID = RequestOf(b).RequestID => a = b)
    /\ [][ /\ \A c \in Conns :
                WroteResponse(c) =>
                    \E task \in ForwardedTasks :
                        /\ task \notin tasks'
                        /\ inbound'[c][Len(inbound'[c])] = task.resp
                        /\ Stage(task.req.RequestID)' = 0
           /\ \A id \in Ids :
                 \/ Stage(id)' >= Stage(id)
                 \/ Stage(id) = 3 /\ Stage(id)' = 0
         ]_vars

\* The agent has built a 400 for a request with a target and a body that is
\* not base64, and a 502 for a request without a target.
C18_Witness ==
    \E a, b \in ForwardedTasks :
        /\ a.req.Target # <<>> /\ a.req.Body = B_bad /\ a.resp.Status = 400
        /\ b.req.Target = <<>> /\ b.resp.Status = 502
        /\ a.resp.RequestID = a.req.RequestID /\ b.resp.RequestID = b.req.RequestID
        /\ a.resp.RequestID # b.resp.RequestID

\* The admin API's requests that change the route store, and those that read.
Mutating == { "POST /api/routes", "DELETE /api/routes/" }
Reading == { "GET /api/routes", "GET /api/status" }

\* A handler of the admin API answers in this step.
Answers(reqs) == admin' # admin /\ admin'.req \in reqs

\* A frame is written on some control connection in this step.
FrameWritten == \E c \in Conns : Len(inbound'[c]) > Len(inbound[c])

\* C19: in managed mode POST /api/routes and DELETE /api/routes/{host} are
\* answered 403 and leave the agent's route store, its file and the gateway's
\* bindings as they were, and no handler of the admin API goes on to publish;
\* GET /api/routes and GET /api/status are answered 200, the former with the
\* store's list; and the store changes only in syncRoutesFromControl's
\* ReplaceAll, to what the control endpoint listed.
C19_ManagedRefusesMutation ==
    /\ [](/\ admin.pos = "idle"
          /\ admin.req \in Mutating => admin.status = 403 /\ admin.body = <<>>
          /\ admin.req \in Reading => admin.status = 200)
    /\ [][ /\ Answers(Mutating) =>
                /\ admin'.status = 403
                /\ UNCHANGED <<storeRoutes, fileRoutes, routes, inbound, sl>>
           /\ Answers({"GET /api/routes"}) =>
                /\ admin'.body = List(storeRoutes)
                /\ UNCHANGED <<storeRoutes, fileRoutes, routes, inbound, sl>>
           /\ Answers({"GET /api/status"}) =>
                /\ admin'.body = << [Connected |-> Connected, ManagedByControl |-> TRUE] >>
                /\ UNCHANGED <<storeRoutes, fileRoutes, routes, inbound, sl>>
           /\ storeRoutes' # storeRoutes =>
                /\ sl = "idle"
                /\ storeRoutes' = CtlNext.routes
                /\ UNCHANGED admin
           /\ fileRoutes' # fileRoutes =>
                /\ sl = "idle"
                /\ fileRoutes' = CtlNext.routes
                /\ UNCHANGED admin
           /\ FrameWritten => (cl = "write" \/ sl = "write") /\ UNCHANGED admin
         ]_vars

\* A POST /api/routes has been refused while the agent is connected, after
\* the route sync has replaced the store and the gateway has bound its routes.
C19_Witness ==
    /\ admin = AdminResponse("POST /api/routes", 403, <<>>)
    /\ cl = "read"
    /\ storeRoutes = CtlNext.routes
    /\ fileRoutes = CtlNext.routes
    /\ \E h \in Hosts : routes[h] # NoBinding

\* A route-sync attempt is failing: it is at a skip position now or after the
\* step.
FailingAttempt == sl \in SkipPositions \/ sl' \in SkipPositions

\* C20: a route-sync attempt that ends with a transport error, a status other
\* than 200 or a body that does not decode returns from its log.Printf
\* without going on to publishRoutes, and from the failed poll to the return
\* the store's routes and the file stay as they were and the attempt writes
\* no frame (the only frame that can be written meanwhile is connectOnce's).
C20_FailedSyncLeavesState ==
    [][ FailingAttempt =>
            /\ UNCHANGED <<storeRoutes, fileRoutes, sList>>
            /\ sl' # sl => \/ sl = "idle" /\ UNCHANGED <<inbound, polled>>
                           \/ sl' = "idle" /\ ~polled' /\ UNCHANGED inbound
            /\ FrameWritten => cl = "write" /\ sl' = sl
      ]_vars

\* A poll whose body does not decode is being skipped while the agent is
\* connected, an earlier poll has replaced the store, and the gateway has read
\* every frame the agent wrote.
C20_Witness ==
    /\ sl = "decode"
    /\ cl = "read"
    /\ aConn # NoSess /\ ~Broken(aConn)
    /\ storeRoutes = CtlNext.routes
    /\ inbound[aConn] = <<>>

\* C21 - as stated: a pull that decodes is compared with the in-memory set
\* after normalisation; when they are equal the sync writes nothing to the
\* file and goes on to no envelope; when they differ the in-memory set and the
\* file become the pulled set and the sync goes on to publish; what it lists is
\* the pulled set, and with a connection held and open it is written on it.
C21_PullApplies ==
    [][ /\ (sl = "idle" /\ storeRoutes = CtlNext.routes) =>
                UNCHANGED <<storeRoutes, fileRoutes, sl, sList>>
        /\ (sl = "idle" /\ storeRoutes' # storeRoutes) =>
                /\ storeRoutes' = CtlNext.routes
                /\ fileRoutes' = CtlNext.routes
                /\ sl' = "list"
        /\ (sl = "list" /\ sl' = "write") => sList' = List(CtlNext.routes)
        /\ (sl = "write" /\ sl' = "idle" /\ aConn # NoSess /\ ~Broken(aConn)) =>
                inbound'[aConn] =
                    Append(inbound[aConn], RegisterRoutes(List(CtlNext.routes)))
      ]_vars

\* A pull has replaced the in-memory set while the agent is connected, the
\* file still holds the set of the start, and the sync is back at its ticker.
C21_Witness ==
    /\ sl = "idle" /\ ~polled
    /\ storeRoutes = CtlNext.routes
    /\ fileRoutes = load(InitFile) /\ fileRoutes # CtlNext.routes
    /\ cl = "read" /\ ~Broken(aConn)

\* C23 - as stated: for every input NormalizeHostname accepts, the second
\* call on its result succeeds and returns the same string, and likewise for
\* NormalizeTarget.
C23_NormalizeIdempotent ==
    call.fn \in {"NormalizeHostname", "NormalizeTarget"} /\ call.again.done
        => ~call.again.err /\ call.again.out = call.out

\* NormalizeHostname accepted a name with two trailing dots and was called on
\* its result, which it refuses.
C23_Witness ==
    /\ call.fn = "NormalizeHostname" /\ call.again.done
    /\ call.arg = <<"a", ".", ".">>
    /\ ~call.err /\ call.out = <<"a", ".">>
    /\ call.again.err /\ call.again.out = <<"a">>

\* A fresh store loads the file in this step, and the file is what the last
\* change of the store saved.
LoadsSaved == call' # call /\ call'.fn = "load" /\ fileRoutes = storeRoutes

\* C22 - as stated: a fresh store that loads the file saved from a store
\* reached through Upsert and Delete holds the same hostname -> target mapping.
C22_RoundTrip ==
    [][ LoadsSaved => call'.out = storeRoutes ]_vars

\* A fresh store has loaded the file saved from a store that holds the name
\* c.d. with its trailing dot, and holds c.d instead.
C22_Witness ==
    /\ call.fn = "load"
    /\ fileRoutes = storeRoutes
    /\ call.arg = List(storeRoutes)
    /\ storeRoutes[<<"c", ".", "d", ".">>] = T_x1
    /\ storeRoutes[<<"c", ".", "d">>] = NoTarget
    /\ call.out[<<"c", ".", "d", ".">>] = NoTarget
    /\ call.out[<<"c", ".", "d">>] = T_x1

\* The handler h looks its host up in this step.
LooksUp(h) == hp[h] = "idle" /\ hp'[h] # "idle"

\* C24 - as stated: a request whose Host, in lower case, without its port and
\* without its trailing dot, is a bound hostname resolves to that binding.
C24_HostResolves ==
    [][ \A h \in Reqs :
            LET canonical == TrimSuffixDot(hHost'[h])
            IN  (LooksUp(h) /\ canonical \in Hosts /\ routes[canonical] # NoBinding)
                    => /\ hp'[h] = "agents"
                       /\ hBinding'[h] = routes[canonical]
      ]_vars

\* A request with Host "C.d." was answered 404 while c.d is bound to a
\* registered session; no binding was taken and no request id allocated.
C24_Witness ==
    \E h \in Reqs :
        /\ hp[h] = "ret" /\ hStatus[h] = 404
        /\ hHost[h] = <<"c", ".", "d", ".">>
        /\ hBinding[h] = NoBinding /\ hId[h] = 0
        /\ routes[H_cd] # NoBinding
        /\ agents[routes[H_cd].Token] # NoSess

\* A hostname of the data model: lower case, no trailing dot, at least one
\* dot, no spaces, no port.
WellFormedHost(h) ==
    /\ h # <<>>
    /\ ToLower(h) = h
    /\ h[Len(h)] # "."
    /\ Contains(h, ".")
    /\ ~Contains(h, " ")
    /\ ~Contains(h, ":")

\* A target of the data model: host:port.
WellFormedTarget(t) == t # <<>> /\ Contains(t, ":") /\ TrimSpace(t) = t

\* C25 - as stated: every binding of the routing table has a well-formed
\* hostname and a target with a port.
C25_BindingsWellFormed ==
    \A h \in Hosts :
        routes[h] # NoBinding =>
            WellFormedHost(h) /\ WellFormedTarget(routes[h].Target)

\* The payload RL_malformed has been applied: the routing table binds the
\* name with the trailing dot and binds a.b to the target without a port,
\* beside the well-formed entry.
C25_Witness ==
    /\ routes[<<"c", ".", "d", ".">>] # NoBinding
    /\ routes[H_ab] # NoBinding /\ routes[H_ab].Target = T_x
    /\ routes[H_cd] # NoBinding /\ routes[H_cd].Target = T_x1

\* The key is a hop-by-hop header, whatever its case.
IsHopKey(key) == KeyToLower(key) \in { KeyToLower(hop) : hop \in HopKeys }

HeaderLegs == { "proxy_request", "local request", "proxy_response", "public response" }

\* C26 - as stated: the headers written on any of the four legs hold no
\* hop-by-hop header.
C26_NoHopHeaders ==
    call.fn \in HeaderLegs => \A key \in call.out : ~IsHopKey(key)

\* writeResponse has written Connection to the public client from an envelope
\* that carried it.
C26_Witness ==
    /\ call.fn = "public response"
    /\ call.arg = { K_connection, K_XA }
    /\ call.out = { K_Connection, K_XA }

\* C27 - as stated: a body over the cap is answered 400 and no envelope is
\* written for it, and the body the agent decodes from an envelope is the body
\* the client sent.
C27_BodyCap ==
    call.fn = "request body" =>
        /\ Len(call.arg) > maxBodySize =>
              call.err /\ call.status = 400 /\ call.out = <<>>
        /\ call.again.done => ~call.again.err /\ call.again.out = call.arg

\* A body of one byte over the cap was read without an error and the agent
\* decoded its first maxBodySize bytes.
C27_Witness ==
    /\ call.fn = "request body" /\ ~call.err /\ call.again.done
    /\ call.arg = <<0, 77, 255, 77>>
    /\ call.again.out = <<0, 77, 255>>

\* C28 - as stated: for a proxy_response whose body is not valid base64 the
\* public client receives 502 with the diagnostic, whatever the envelope's
\* status; for an envelope with status zero it receives 502.
C28_UndecodableIs502 ==
    call.fn = "writeResponse" =>
        /\ DecodeString(call.arg.Body).err =>
              call.status = 502 /\ call.diagnostic
        /\ call.arg.Status = 0 => call.status = 502

\* The client received 200 with the diagnostic for an envelope of status
\* 200 whose body has a character outside the base64 alphabet.
C28_Witness ==
    /\ call.fn = "writeResponse"
    /\ call.arg = [Status |-> 200, Body |-> <<0, 63, NotBase64, 0>>]
    /\ call.status = 200 /\ call.diagnostic /\ call.out = <<>>

\* min(2^(n-1), 10)
Delay(n) == IF 2^(n - 1) < 10 THEN 2^(n - 1) ELSE 10

\* C30: while connectLoop waits after its n-th call of connectOnce, however
\* that call ended, the delay is min(2^(n-1), 10) seconds; the backoff is
\* always between 1 and 10 seconds; and connectLoop returns only after the
\* cancellation.
C30_Backoff ==
    /\ loopAt = "wait" => dials >= 1 /\ backoff = Delay(dials)
    /\ loopAt = "select" => backoff = Delay(dials + 1)
    /\ backoff >= 1 /\ backoff <= 10
    /\ loopAt = "returned" => ctxDone

\* connectLoop waits the capped 10 seconds after its sixth connectOnce, which
\* ended an established session or failed to dial.
C30_Witness ==
    loopAt = "wait" /\ dials = 6 /\ backoff = 10 /\ ~ctxDone

\* C29 - as stated: once ctx is cancelled, connectLoop and routeSyncLoop
\* eventually return, whatever connectLoop was doing.
C29_LoopsExit ==
    ctxDone ~> (loopAt = "returned" /\ syncAt = "returned")

\* ctx is cancelled while connectOnce is in conn.ReadJSON on an open
\* connection; routeSyncLoop has returned.
C29_Witness ==
    ctxDone /\ loopAt = "read" /\ syncAt = "returned"

\* cleanupAgent(c) runs its check under agentsMu.
ChecksRegistry(c) == hc[c] = "cleanup" /\ hc'[c] # "cleanup"

\* cleanupAgent(c) runs its delete loop under routesMu.
PurgesRoutes(c) == hc[c] = "purge" /\ hc'[c] # "purge"

\* C31 - as stated: cleanupAgent(S) removes the registry entry of S's token
\* and goes on to purge the token's bindings exactly when the registry maps
\* the token to S at its check; otherwise (a successor is registered, or no
\* session is) it leaves the registry and the routing table as they are, and
\* returns without a purge.
C31_CleanupIffCurrent ==
    [][ \A c \in Conns :
            /\ ChecksRegistry(c) =>
                  IF agents[connTok[c]] = c
                  THEN /\ agents' = [agents EXCEPT ![connTok[c]] = NoSess]
                       /\ hc'[c] = "purge"
                  ELSE /\ agents' = agents
                       /\ routes' = routes
                       /\ hc'[c] = "close"
            /\ PurgesRoutes(c) =>
                  /\ routes' = DeleteBindingsOf(routes, connTok[c])
                  /\ agents' = agents
                  /\ hc'[c] = "close"
            /\ (hc[c] = "close" /\ hc'[c] # "close") =>
                  agents' = agents /\ routes' = routes
      ]_vars

\* The cleanup of a replaced session has found its successor in the registry
\* and has returned; the successor's entry and bindings are in place.
C31_Witness ==
    \E c \in Conns :
        /\ hc[c] = "close"
        /\ agents[connTok[c]] \notin {NoSess, c}
        /\ prev[agents[connTok[c]]] = c
        /\ \E h \in Hosts : routes[h].by = agents[connTok[c]]

\* C32 - as stated: the purge of cleanupAgent(S) deletes no binding inserted
\* by the session that registered for S's token after S was removed from the
\* registry.
C32_AtomicRemoval ==
    [][ \A c \in Conns :
            PurgesRoutes(c) =>
                \A h \in Hosts :
                    (agents[connTok[c]] # NoSess /\ routes[h].by = agents[connTok[c]])
                        => routes'[h] = routes[h]
      ]_vars

\* S has been removed from the registry and has not purged yet; a session has
\* registered for the token since and its register_routes has been applied.
C32_Witness ==
    \E c \in Conns :
        /\ hc[c] = "purge"
        /\ routesMu = NoSess
        /\ agents[connTok[c]] \notin {NoSess, c}
        /\ \E h \in Hosts : routes[h].by = agents[connTok[c]]

\* The reader of c takes a register_routes envelope from ReadJSON.
TakesRegisterRoutes(c) == hc[c] = "read" /\ hc'[c] = "insert"

\* C33 - as stated: a register_routes handled by the reader of a session that
\* is not the registered session of its token changes no binding.
C33_StaleRegisterDropped ==
    [][ \A c \in Conns :
            (TakesRegisterRoutes(c) /\ agents[connTok[c]] # c) =>
                /\ routes' = routes
                /\ hc'[c] = "read"
      ]_vars

\* d has replaced c and has published, and the table holds a binding that c's
\* reader inserted after that.
C33_Witness ==
    \E c, d \in Conns :
        /\ c # d
        /\ prev[d] = c
        /\ agents[connTok[d]] = d
        /\ applied[d]
        /\ \E h \in Hosts : routes[h].by = c

\* A frame is written on the control connection c.
WritesOn(c) == Len(inbound'[c]) > Len(inbound[c])

\* connectOnce has dialled and set Service.conn, and its publishRoutes has
\* not written yet.
BeforeFirstPublish == cl \in {"list", "write"}

\* C34 - as stated: on a newly established connection connectOnce writes a
\* register_routes with the store's route set, and nothing is written on the
\* connection before it: neither the proxy_response of a request of an
\* earlier connection nor the publish of the route sync.
C34_RegisterRoutesFirst ==
    [][ /\ (cl = "list" /\ cl' = "write") => cList' = List(storeRoutes)
        /\ \A c \in Conns :
              (BeforeFirstPublish /\ WritesOn(c)) =>
                  /\ c = aConn
                  /\ cl = "write" /\ cl' = "read"
                  /\ inbound'[c] = Append(inbound[c], RegisterRoutes(cList))
      ]_vars

\* connectOnce is about to publish on the new connection, and the response
\* of a request read on the connection before is already written on it.
C34_Witness ==
    /\ BeforeFirstPublish
    /\ aConn = 2
    /\ inbound[aConn] # <<>>
    /\ Head(inbound[aConn]).Type = "proxy_response"

\* C35 - as stated: a proxy_response is written only on the connection on
\* which its proxy_request was received: the frames in flight on a connection
\* answer no request the gateway wrote on another one.
C35_ResponseOnSameConnection ==
    \A c \in Conns : \A i \in 1..Len(inbound[c]) :
        inbound[c][i].Type = "proxy_response" =>
            \A h \in Reqs :
                (hWrote[h] /\ hId[h] = inbound[c][i].RequestID) => hSess[h] = c

\* A handler waits for the response to the request it wrote on the first
\* connection; the agent has lost that connection, has connected again, and
\* has written the response on the second connection.
C35_Witness ==
    \E h \in Reqs :
        /\ hp[h] = "wait" /\ hWrote[h]
        /\ hSess[h] = 1 /\ aConn = 2
        /\ \E i \in 1..Len(inbound[2]) :
              /\ inbound[2][i].Type = "proxy_response"
              /\ inbound[2][i].RequestID = hId[h]

\* C36 - as stated: an outstanding local call does not block the session: the
\* reader takes the next envelope whenever one has arrived, whatever
\* goroutines are running, and at most one goroutine is inside conn.WriteJSON,
\* the holder of writeMu.
C36_NoHeadOfLineBlocking ==
    /\ (cl = "read" /\ outbound[aConn] # <<>>) => ENABLED AgentReadRequest
    /\ Cardinality(inWrite) <= 1
    /\ inWrite \subseteq {writeMu}

\* The local call of the first request is outstanding; the reader has
\* dispatched the second request meanwhile and its response is written.
C36_Witness ==
    /\ cl = "read"
    /\ \E task \in tasks : ~Forwarded(task) /\ task.RequestID = 1
    /\ \E i \in 1..Len(inbound[aConn]) :
          /\ inbound[aConn][i].Type = "proxy_response"
          /\ inbound[aConn][i].RequestID = 2

\* What can still put an envelope on the channel of handler h, or has put
\* one: its slot in a pending map, a reader at "ch <- env", the channel's
\* buffer, and the envelope the handler received.
Slots(h) ==
    Cardinality({ s \in Conns \X Ids : pending[s[1]][s[2]] = h })
Senders(h) ==
    Cardinality({ c \in Conns : hc[c] = "send" /\ env[c].ch = h })
Deliveries(h) ==
    Slots(h) + Senders(h) + Len(respCh[h]) + (IF hGot[h] # NoEnv THEN 1 ELSE 0)

\* The reader of c pops a slot and goes on to send on the channel of h.
TakesResponseFor(c, h) ==
    hc[c] = "read" /\ hc'[c] = "send" /\ env'[c].ch = h

\* The handler is at session.Write or in its select.
Waiting(h) == hp[h] \in {"write", "wait"}

\* C37 - as stated: at most one envelope is sent on the channel of a pending
\* slot and the reader's send never finds the buffer full; a proxy_response
\* is taken to the send only for a handler that still waits, so that one
\* arriving after the waiter timed out is dropped without a send.
C37_SendOnlyToWaiter ==
    /\ [][ \A c \in Conns, h \in Reqs : TakesResponseFor(c, h) => Waiting(h) ]_vars
    /\ [](\A h \in Reqs : Deliveries(h) <= 1)

\* C37 - amended: at most one envelope is sent on the channel of a pending
\* slot and the reader's send never finds the buffer full; a proxy_response
\* is taken to the send only while the slot is in the session's map, that
\* is, for a handler that has registered it and has not returned: a second
\* response with the same request_id, and one arriving after the handler's
\* deferred RemovePending, are dropped without a send.
C37_SingleShotSlot ==
    /\ [][ \A c \in Conns, h \in Reqs :
              TakesResponseFor(c, h) =>
                  /\ hp[h] \in {"write", "wait", "defer"}
                  /\ hSess[h] = c /\ hId[h] = env'[c].RequestID
                  /\ pending[c][hId[h]] = h /\ pending'[c][hId[h]] = 0
                  /\ respCh[h] = <<>> /\ hGot[h] = NoEnv
         ]_vars
    /\ [][ \A c \in Conns :
              (hc[c] = "send" /\ hc'[c] # "send") =>
                  /\ respCh[env[c].ch] = <<>>
                  /\ respCh'[env[c].ch] = <<env[c]>>
         ]_vars
    /\ [](\A h \in Reqs : Deliveries(h) <= 1)

\* The handler has answered 504 and its deferred RemovePending has not run;
\* the reader has popped its slot for a response that arrived since and is
\* at the send.
C37_Witness ==
    \E h \in Reqs, c \in Conns :
        /\ hp[h] = "defer" /\ hStatus[h] = 504
        /\ hc[c] = "send" /\ env[c].ch = h
        /\ respCh[h] = <<>>

\* C38 - as stated: the in-memory route set changes only together with a
\* successful write of the file, so that a failed Upsert or Delete leaves it
\* as before the call and it always equals the content of the file.
C38_FailedSaveKeepsMemory ==
    /\ [][ fileRoutes' = fileRoutes => storeRoutes' = storeRoutes ]_vars
    /\ [](storeRoutes = fileRoutes)

\* POST /api/routes was answered with an error because the file could not be
\* written, and the in-memory set holds the new route, which the file lacks.
C38_Witness ==
    /\ admin.req = "POST /api/routes" /\ admin.pos = "idle" /\ admin.status = 400
    /\ storeRoutes[H_cd] = T_x1
    /\ fileRoutes[H_cd] = NoTarget
    /\ \A h \in Hosts \ {H_cd} : storeRoutes[h] = fileRoutes[h]

\* NormalizeHostname and NormalizeTarget accept the pair.
Accepts(hostname, target) ==
    ~NormalizeHostname(hostname).err /\ ~NormalizeTarget(target).err

\* Every entry of the store is one the two functions accept.
ValidStore(store) ==
    \A h \in Hosts : store[h] # NoTarget => Accepts(h, store[h])

\* The entries of a list that load keeps.
Kept(file) == { r \in SeqRange(file) : Accepts(r.Hostname, r.Target) }

\* C39 - as stated: every entry of the route store, in memory and in the
\* file, has a hostname and a target that NormalizeHostname and
\* NormalizeTarget accept; an Upsert or Delete answered with an error and a
\* ReplaceAll with an invalid entry leave the store and the file unchanged;
\* load keeps the valid entries of the file, and only them.
C39_StoreValid ==
    /\ [](ValidStore(storeRoutes) /\ ValidStore(fileRoutes))
    /\ [][ (admin' # admin /\ admin'.status = 400) =>
              UNCHANGED <<storeRoutes, fileRoutes>> ]_vars
    /\ [](call.fn = "ReplaceAll" =>
              /\ call.err <=> Kept(call.arg) # SeqRange(call.arg)
              /\ ValidStore(call.out))
    /\ [][ (call' # call /\ call'.fn = "ReplaceAll" /\ call'.err) =>
              call'.out = storeRoutes ]_vars
    /\ [](call.fn = "load" =>
              /\ ~call.err
              /\ ValidStore(call.out)
              /\ { h \in Hosts : call.out[h] # NoTarget } =
                    { NormalizeHostname(r.Hostname).host : r \in Kept(call.arg) })

\* The store holds the hostname "d.", which Upsert made of "d.." and which
\* NormalizeHostname refuses, in memory and in the file.
C39_Witness ==
    /\ admin.req = "POST /api/routes" /\ admin.status = 200
    /\ storeRoutes[<<"d", ".">>] = T_x1
    /\ fileRoutes[<<"d", ".">>] = T_x1
    /\ NormalizeHostname(<<"d", ".">>).err

\* connectOnce's publishRoutes writes, on an open connection, a list that is
\* no longer the store's.
WritesStaleList ==
    /\ cl = "write" /\ cl' = "read"
    /\ ~Broken(aConn)
    /\ cList # List(storeRoutes)

\* C40 - as stated: register_routes envelopes are written in the order in
\* which their lists were taken from the store: connectOnce writes a list
\* older than the store only while the publish of the change is still to be
\* written; hence with every save successful, no publish in progress and
\* every frame of the first connection applied, the gateway's bindings for
\* the token are the store's route set.
C40_PublishOrder ==
    /\ [][ (WritesStaleList /\ storeRoutes = fileRoutes) =>
              sl \in {"list", "write"} ]_vars
    /\ []((Settled /\ nextConn = 2 /\ applied[aConn] /\ sl = "idle"
              /\ storeRoutes = fileRoutes)
            => OwnedPairs(routes, AgentToken) = StorePairs(storeRoutes))

\* The route sync has saved and published the pulled set; connectOnce has
\* written the list it took before that afterwards, and it is applied: the
\* agent stays connected with the gateway holding the old set.
C40_Witness ==
    /\ Settled /\ nextConn = 2 /\ applied[aConn]
    /\ sl = "idle" /\ polled
    /\ storeRoutes = CtlNext.routes /\ fileRoutes = CtlNext.routes
    /\ OwnedPairs(routes, AgentToken) = StorePairs(load(InitFile))
    /\ StorePairs(load(InitFile)) # StorePairs(storeRoutes)

====
